---------------------------- MODULE Spec2Model ----------------------------
(***************************************************************************)
(* A model of tau (src/tau/tau.c): the realtime audio engine, its Unix     *)
(* datagram control server (dgram_thread / process_command), the           *)
(* subscriber list (srv_add_subscriber / srv_broadcast) and the sample     *)
(* slots (slot_free / slot_load_path / slot_tick).                         *)
(*                                                                         *)
(* Numbers.  A C float x is modelled as the integer 10000*x (fixed point,  *)
(* four decimals), so 0.8f is 8000 and 10.0f is 100000.  The one float     *)
(* that is not a number, NaN, is the value NaN below; every comparison     *)
(* with it is false, as in C.                                              *)
(*                                                                         *)
(* Text.  Datagrams, tokens and socket paths are strings; strtok, atoi,    *)
(* atof and strncpy are computed on the characters.                        *)
(***************************************************************************)
EXTENDS Integers, Sequences, FiniteSets, TLC

(***************************************************************************)
(* Program constants (src/tau/tau.c, lines 40-47).                         *)
(***************************************************************************)
ENGINE_SR_DEFAULT == 48000
NUM_CHANNELS == 4
NUM_SLOTS == 16
NUM_VOICES == 8
MAX_SUBSCRIBERS == 32
SOCKET_PATH_MAX == 108
MAX_TOKENS == 32

F_OFF == 0
F_LP == 1
F_HP == 2
F_BP == 3
W_SINE == 0
W_PULSE == 1

(***************************************************************************)
(* Floats in fixed point.                                                  *)
(***************************************************************************)
F(n) == n * 10000
Frac(num, den) == (num * 10000) \div den
NaN == 0 - F(200000)

\* x < y on floats: false when either side is NaN.
FLt(x, y) == x # NaN /\ y # NaN /\ x < y

\* lo <= x <= hi for a float that is a number.
InRange(x, lo, hi) == x # NaN /\ lo <= x /\ x <= hi

\* clampf with its comparisons dropped: the value is returned as given.
clampf_unclamped(x, lo, hi) == x

\* clampf: x<lo ? lo : (x>hi ? hi : x)
clampf(x, lo, hi) == IF FLt(x, lo) THEN lo ELSE IF FLt(hi, x) THEN hi ELSE x

\* clampi returning v as given.
clampi_none(v, lo, hi) == v

\* clampi: v<lo ? lo : (v>hi ? hi : v)
clampi(v, lo, hi) == IF v < lo THEN lo ELSE IF v > hi THEN hi ELSE v

\* fmaxf with the floor dropped: the second argument is returned as given.
fmaxf_nofloor(a, b) == b

\* fmaxf (C99): if one argument is NaN the other is returned.
fmaxf(a, b) == IF a = NaN THEN b ELSE IF b = NaN THEN a ELSE IF a < b THEN b ELSE a

(***************************************************************************)
(* Text: strtok, atoi, atof, strncpy.                                      *)
(***************************************************************************)
Char(s, i) == SubSeq(s, i, i)

IsDelim(c) == c \in {" ", "\t", "\n"}

IsDigit(c) == c \in {"0", "1", "2", "3", "4", "5", "6", "7", "8", "9"}

DigitVal(c) ==
    CASE c = "0" -> 0 [] c = "1" -> 1 [] c = "2" -> 2 [] c = "3" -> 3
      [] c = "4" -> 4 [] c = "5" -> 5 [] c = "6" -> 6 [] c = "7" -> 7
      [] c = "8" -> 8 [] c = "9" -> 9

\* The smallest member of a non-empty set of positions.
First(S) == CHOOSE i \in S : \A j \in S : i <= j

\* The tokens strtok(buf, " \t\n") yields, at most MAX_TOKENS of them.
\* Each call skips the delimiters from position i on and returns the
\* characters up to the next delimiter or the end of the text.
RECURSIVE TokenizeFrom(_, _, _)
TokenizeFrom(s, i, toks) ==
    LET starts == {j \in i .. Len(s) : ~IsDelim(Char(s, j))}
    IN  IF Len(toks) >= MAX_TOKENS \/ starts = {} THEN toks
        ELSE LET start == First(starts)
                 end == First({j \in start + 1 .. Len(s) + 1 :
                                   j = Len(s) + 1 \/ IsDelim(Char(s, j))})
             IN  TokenizeFrom(s, end + 1,
                              Append(toks, SubSeq(s, start, end - 1)))

Tokenize(s) == TokenizeFrom(s, 1, <<>>)

\* The run of decimal digits of s from position i: its value and the
\* position after it.
RECURSIVE ParseDigits(_, _, _)
ParseDigits(s, i, acc) ==
    IF i <= Len(s) /\ IsDigit(Char(s, i))
    THEN ParseDigits(s, i + 1, acc * 10 + DigitVal(Char(s, i)))
    ELSE [val |-> acc, next |-> i]

HasSign(s) == Len(s) >= 1 /\ Char(s, 1) \in {"-", "+"}
IsNeg(s) == Len(s) >= 1 /\ Char(s, 1) = "-"

\* atoi: optional sign, then digits; 0 when there are none.
atoi(s) ==
    LET r == ParseDigits(s, IF HasSign(s) THEN 2 ELSE 1, 0)
    IN  IF IsNeg(s) THEN 0 - r.val ELSE r.val

\* The fraction digits after a '.', as ten-thousandths: up to four digits
\* count, the rest are below the model's resolution.
RECURSIVE ParseFrac(_, _, _, _)
ParseFrac(s, i, acc, unit) ==
    IF i <= Len(s) /\ IsDigit(Char(s, i))
    THEN ParseFrac(s, i + 1, acc + DigitVal(Char(s, i)) * unit, unit \div 10)
    ELSE acc

\* atof (strtod): optional sign, then "nan", or digits with an optional
\* fraction; 0 when the text is no number.  Exponents are not modelled.
atof(s) ==
    LET b == IF HasSign(s) THEN 2 ELSE 1
        w == ParseDigits(s, b, 0)
        fr == IF w.next <= Len(s) /\ Char(s, w.next) = "."
              THEN ParseFrac(s, w.next + 1, 0, 1000)
              ELSE 0
        mag == F(w.val) + fr
    IN  IF Len(s) >= b + 2 /\ SubSeq(s, b, b + 2) \in {"nan", "NaN", "NAN"}
        THEN NaN
        ELSE IF IsNeg(s) THEN 0 - mag ELSE mag

\* strncpy(dst, src, n) into a zeroed dst: the first n characters of src.
strncpy(src, n) == IF Len(src) > n THEN SubSeq(src, 1, n) ELSE src

(***************************************************************************)
(* State.                                                                  *)
(*   G            the engine singleton (static Engine G)                   *)
(*   heap         the sample buffers malloc has handed out                 *)
(*   subscribers  g_srv.subscribers[0 .. sub_count-1], as sun_path strings *)
(*   running      g_srv.running                                            *)
(*   gone, busy   the environment: endpoints whose socket is gone (sendto  *)
(*                fails with ECONNREFUSED/ENOENT) or whose queue is full   *)
(*                (sendto fails with EAGAIN)                               *)
(*   n, client_addr, buf, response                                         *)
(*                the locals of dgram_thread after its last recvfrom       *)
(*   sent         the sendto calls of the last loop iteration, in order    *)
(*   cmd          the command thread's position inside a SAMPLE LOAD       *)
(***************************************************************************)
VARIABLES G, heap, subscribers, running, gone, busy,
          n, client_addr, buf, response, sent, cmd, render, hist, proc

vars == <<G, heap, subscribers, running, gone, busy,
          n, client_addr, buf, response, sent, cmd, render, hist, proc>>

NULL == 0

\* Model bound: how many sample buffers malloc hands out in one run.  A
\* freed buffer's address is never handed out again, so a stale pointer
\* stays recognisable.
MaxBufs == 2

BufIds == 1 .. MaxBufs

(***************************************************************************)
(* Initial values: svf_init, channel_init, slot_init, voice_init,          *)
(* engine_init.                                                            *)
(***************************************************************************)
svf_init ==
    [type |-> F_OFF, cutoff |-> F(1000), q |-> Frac(7071, 10000),
     ic1eq |-> 0, ic2eq |-> 0, g |-> 0, k |-> 0,
     prev_cutoff |-> F(-1), prev_q |-> F(-1)]

channel_init == [gain |-> F(1), pan |-> 0, filt |-> svf_init]

slot_init ==
    [assignedCh |-> 0, loaded |-> 0, playing |-> 0, loop |-> 0,
     gain |-> F(1), data |-> NULL, length |-> 0, pos |-> 0, haveDecoder |-> 0]

voice_init ==
    [on |-> 0, wave |-> W_SINE, freq |-> F(220), gain |-> Frac(2, 10),
     assignedCh |-> 0, tauA |-> Frac(5, 1000), tauB |-> Frac(20, 1000),
     dutyBias |-> Frac(5, 10), spikes |-> 0, phase |-> 0,
     Astate |-> 0, Bstate |-> 0]

engine_init ==
    [masterGain |-> Frac(8, 10),
     ch |-> [c \in 0 .. NUM_CHANNELS - 1 |-> channel_init],
     slots |-> [s \in 0 .. NUM_SLOTS - 1 |-> slot_init],
     voices |-> [v \in 0 .. NUM_VOICES - 1 |-> voice_init],
     chMono |-> [c \in 0 .. NUM_CHANNELS - 1 |-> 0]]

heap_init == [b \in BufIds |-> [st |-> "unalloc", size |-> 0, written |-> FALSE]]

(***************************************************************************)
(* Sample slots: slot_free and slot_load_path, one shared-memory access    *)
(* per step.  c is the loader's context: pc, the return code pending       *)
(* after a slot_free (0: the slot_free that opens slot_load_path), the     *)
(* decoder's outcome o = [fail, frames] (fail = 0: the file decodes to     *)
(* `frames` frames; 1: ma_decoder_init_file fails; 2: the length query     *)
(* fails; 3: malloc of tmp fails; 4: malloc of data fails), and ret.       *)
(***************************************************************************)
malloc(h) == IF \E b \in BufIds : h[b].st = "unalloc"
             THEN CHOOSE b \in BufIds :
                     /\ h[b].st = "unalloc"
                     /\ \A b2 \in BufIds : h[b2].st = "unalloc" => b <= b2
             ELSE NULL

LoadStart(o) == [pc |-> "free_buf", code |-> 0, o |-> o, ret |-> 0]

LoadIdle == [pc |-> "idle", code |-> 0, o |-> [fail |-> 0, frames |-> 0], ret |-> 0]

At(c, pc) == [c EXCEPT !.pc = pc]

\* slot_free, then `return code` (code # 0) or on into slot_load_path.
FreeThen(c, code) == [c EXCEPT !.pc = "free_buf", !.code = code]

slot_free_step(c, s, h) ==
    CASE c.pc = "free_buf" ->
            IF s.data # NULL
            THEN [c |-> At(c, "null_data"), s |-> s,
                  h |-> [h EXCEPT ![s.data] = [st |-> "freed", size |-> 0,
                                               written |-> FALSE]]]
            ELSE [c |-> At(c, "free_dec"), s |-> s, h |-> h]
      [] c.pc = "null_data" ->
            [c |-> At(c, "free_dec"), s |-> [s EXCEPT !.data = NULL], h |-> h]
      [] c.pc = "free_dec" ->
            [c |-> At(c, "free_loaded"),
             s |-> IF s.haveDecoder = 1 THEN [s EXCEPT !.haveDecoder = 0] ELSE s,
             h |-> h]
      [] c.pc = "free_loaded" ->
            [c |-> At(c, "free_playing"), s |-> [s EXCEPT !.loaded = 0], h |-> h]
      [] c.pc = "free_playing" ->
            [c |-> IF c.code = 0 THEN At(c, "open")
                   ELSE [c EXCEPT !.pc = "done", !.ret = c.code],
             s |-> [s EXCEPT !.playing = 0], h |-> h]

InFree(c) == c.pc \in {"free_buf", "null_data", "free_dec", "free_loaded", "free_playing"}

slot_load_step(c, s, h) ==
    CASE InFree(c) -> slot_free_step(c, s, h)
      [] c.pc = "open" ->
            IF c.o.fail = 1
            THEN [c |-> [c EXCEPT !.pc = "done", !.ret = -1], s |-> s, h |-> h]
            ELSE [c |-> At(c, "lenq"), s |-> [s EXCEPT !.haveDecoder = 1], h |-> h]
      [] c.pc = "lenq" ->
            IF c.o.fail = 2
            THEN [c |-> FreeThen(c, -2), s |-> s, h |-> h]
            ELSE [c |-> At(c, "tmp"), s |-> s, h |-> h]
      [] c.pc = "tmp" ->
            IF c.o.fail = 3
            THEN [c |-> FreeThen(c, -3), s |-> s, h |-> h]
            ELSE [c |-> At(c, "length"), s |-> s, h |-> h]
      [] c.pc = "length" ->
            [c |-> At(c, "alloc"), s |-> [s EXCEPT !.length = c.o.frames], h |-> h]
      [] c.pc = "alloc" ->
            LET b == IF c.o.fail = 4 THEN NULL ELSE malloc(h)
            IN  IF b = NULL
                THEN [c |-> FreeThen(c, -4), s |-> [s EXCEPT !.data = NULL], h |-> h]
                ELSE [c |-> At(c, "fill"), s |-> [s EXCEPT !.data = b],
                      h |-> [h EXCEPT ![b] = [st |-> "live", size |-> s.length,
                                              written |-> FALSE]]]
      [] c.pc = "fill" ->
            [c |-> At(c, "pos"), s |-> s, h |-> [h EXCEPT ![s.data].written = TRUE]]
      [] c.pc = "pos" ->
            [c |-> At(c, "publish"), s |-> [s EXCEPT !.pos = 0], h |-> h]
      [] c.pc = "publish" ->
            [c |-> [c EXCEPT !.pc = "done", !.ret = 0],
             s |-> [s EXCEPT !.loaded = 1], h |-> h]

\* slot_load_path run to its return.
RECURSIVE slot_load_run(_)
slot_load_run(r) ==
    IF r.c.pc = "done" THEN r ELSE slot_load_run(slot_load_step(r.c, r.s, r.h))

slot_load_path(s, h, o) == slot_load_run([c |-> LoadStart(o), s |-> s, h |-> h])

(***************************************************************************)
(* The render callback's visit to one slot: data_cb's test of playing and  *)
(* then slot_tick, one shared-memory access per step.  r is the render     *)
(* thread's context: pc, the slot s it is in, the data pointer and cursor  *)
(* it has read, and what its read of data[pos] hit.  data is not atomic,   *)
(* so the pointer used for data[pos] is the one tested against NULL or     *)
(* one read again (reuse).                                                 *)
(***************************************************************************)
RenderIdle ==
    [pc |-> "idle", s |-> 0, data |-> NULL, pos |-> 0, gain |-> 0,
     hit |-> "none", out |-> 0]

\* What a read outside a live, written buffer yields: a float the program
\* has no control of.
Wild == 0 - F(200001)

\* The product and the sum of two floats.  Wild and NaN propagate.
FMul(a, b) ==
    IF Wild \in {a, b} THEN Wild
    ELSE IF NaN \in {a, b} THEN NaN
    ELSE (a * b) \div 10000

FAdd(a, b) ==
    IF Wild \in {a, b} THEN Wild
    ELSE IF NaN \in {a, b} THEN NaN
    ELSE a + b

\* Sample i of a decoded file, after the mixdown to mono: the files of
\* this model hold the ramp 0.25, 0.5, 0.75, ...
Pcm(i) == Frac(i + 1, 4)

\* slot_tick returning v to data_cb.
Return(r, v) == [RenderIdle EXCEPT !.out = v]

\* What a read of element pos of the buffer at ptr hits.
deref(h, ptr, pos) ==
    IF ptr = NULL THEN "null"
    ELSE IF h[ptr].st # "live" THEN "freed"
    ELSE IF pos >= h[ptr].size THEN "outside"
    ELSE IF ~h[ptr].written THEN "unwritten"
    ELSE "ok"

\* The slot's playing flag as data_cb and slot_tick read it, always set.
slot_playing_always(s) == 1

slot_playing(s) == s.playing

\* The slot's loop flag as slot_tick reads it, never set.
slot_loop_never(s) == 0

slot_loop(s) == s.loop

\* The end-of-data test of slot_tick, passing pos = length.
at_end_past(pos, length) == pos > length

at_end(pos, length) == pos >= length

slot_tick_step(r, s, h, reuse) ==
    CASE r.pc = "tick_playing" ->
            [r |-> IF slot_playing(s) = 0 THEN Return(r, 0) ELSE At(r, "tick_loaded"),
             s |-> s]
      [] r.pc = "tick_loaded" ->
            [r |-> IF s.loaded = 0 THEN Return(r, 0) ELSE At(r, "tick_data"),
             s |-> s]
      [] r.pc = "tick_data" ->
            [r |-> IF s.data = NULL THEN Return(r, 0)
                   ELSE [r EXCEPT !.pc = "tick_pos", !.data = s.data],
             s |-> s]
      [] r.pc = "tick_pos" ->
            [r |-> [r EXCEPT !.pc = "tick_length", !.pos = s.pos], s |-> s]
      [] r.pc = "tick_length" ->
            IF at_end(r.pos, s.length)
            THEN IF slot_loop(s) # 0
                 THEN [r |-> [r EXCEPT !.pc = "tick_gain", !.pos = 0],
                       s |-> [s EXCEPT !.pos = 0]]
                 ELSE [r |-> At(r, "tick_rewind"), s |-> [s EXCEPT !.playing = 0]]
            ELSE [r |-> At(r, "tick_gain"), s |-> s]
      [] r.pc = "tick_rewind" ->
            [r |-> Return(r, 0), s |-> [s EXCEPT !.pos = 0]]
      [] r.pc = "tick_gain" ->
            [r |-> [r EXCEPT !.pc = "tick_sample", !.gain = s.gain], s |-> s]
      [] r.pc = "tick_sample" ->
            [r |-> [r EXCEPT !.pc = "tick_store",
                             !.hit = deref(h, IF reuse THEN r.data ELSE s.data,
                                           r.pos)],
             s |-> s]
      [] r.pc = "tick_store" ->
            [r |-> Return(r, IF r.hit = "ok" THEN FMul(Pcm(r.pos), r.gain)
                             ELSE Wild),
             s |-> [s EXCEPT !.pos = r.pos + 1]]

\* slot_tick run to its return by the render thread alone.
RECURSIVE slot_tick_run(_, _)
slot_tick_run(t, h) ==
    IF t.r.pc = "idle" THEN t
    ELSE slot_tick_run(slot_tick_step(t.r, t.s, h, TRUE), h)

slot_tick(s, h) ==
    LET t == slot_tick_run([r |-> At(RenderIdle, "tick_playing"), s |-> s], h)
    IN  [s |-> t.s, out |-> t.r.out]

\* data_cb at slot si: skip it unless playing, else slot_tick.
data_cb_step(r, si, s, h, reuse) ==
    IF r.pc = "idle"
    THEN [r |-> IF slot_playing(s) = 0 THEN r
                ELSE [RenderIdle EXCEPT !.pc = "tick_playing", !.s = si],
          s |-> s]
    ELSE slot_tick_step(r, s, h, reuse)

(***************************************************************************)
(* Voices: voice_tick, one access to the voice per step.  The render       *)
(* thread's context r holds what it has read: the drained spikes s and     *)
(* f, g, w, ta, tb.  A, B and phase are the render thread's own.           *)
(***************************************************************************)
ENGINE_SR == ENGINE_SR_DEFAULT

\* expf(-x) for 0 <= x < 1, by its series up to the fourth power.
expf_neg(x) ==
    LET x2 == FMul(x, x)
        x3 == FMul(x2, x)
        x4 == FMul(x3, x)
    IN  F(1) - x + (x2 \div 2) - (x3 \div 6) + (x4 \div 24)

\* A factor of 1.0: the registers keep their value.
decay_none(tau) == F(1)

\* expf(-1.0f/(tau*sr)): the factor A or B decays by in one tick.
decay(tau) == expf_neg(F(10) \div ((tau * (ENGINE_SR \div 100)) \div 10))

\* sinf(TWO_PI * phase), by Bhaskara's rational approximation of the half
\* wave: sin(pi*t) = 16t(1-t) / (5 - 4t(1-t)) for t in [0,1].
sinf_2pi(phase) ==
    LET p == phase % F(1)
        t == IF p < Frac(1, 2) THEN 2 * p ELSE 2 * p - F(1)
        u == FMul(t, F(1) - t)
        half == (16 * u * 100) \div ((F(5) - 4 * u) \div 100)
    IN  IF p < Frac(1, 2) THEN half ELSE 0 - half

\* The voice's on flag as data_cb and voice_tick read it, always on.
voice_on_always(v) == 1

voice_on(v) == v.on

VoiceTickStart(vi) ==
    [pc |-> "voice_on", v |-> vi, s |-> 0, f |-> 0, g |-> 0, w |-> 0,
     ta |-> 0, tb |-> 0, out |-> 0]

\* atomic_exchange(&v->spikes, 0) that leaves the counter as it is.
spikes_taken_kept(v) == v

\* The voice after atomic_exchange(&v->spikes, 0).
spikes_taken(v) == [v EXCEPT !.spikes = 0]

voice_tick_step(r, v) ==
    CASE r.pc = "voice_on" ->
            [r |-> IF voice_on(v) = 0 THEN Return(r, 0) ELSE At(r, "voice_xchg"), v |-> v]
      [] r.pc = "voice_xchg" ->
            [r |-> [r EXCEPT !.pc = IF v.spikes > 0 THEN "voice_addA"
                                    ELSE "voice_freq",
                             !.s = v.spikes],
             v |-> spikes_taken(v)]
      [] r.pc = "voice_addA" ->
            [r |-> At(r, "voice_addB"),
             v |-> [v EXCEPT !.Astate = v.Astate + F(r.s)]]
      [] r.pc = "voice_addB" ->
            [r |-> At(r, "voice_freq"),
             v |-> [v EXCEPT !.Bstate = v.Bstate + F(r.s)]]
      [] r.pc = "voice_freq" ->
            [r |-> [r EXCEPT !.pc = "voice_gain", !.f = fmaxf(F(1), v.freq)],
             v |-> v]
      [] r.pc = "voice_gain" ->
            [r |-> [r EXCEPT !.pc = "voice_wave", !.g = v.gain], v |-> v]
      [] r.pc = "voice_wave" ->
            [r |-> [r EXCEPT !.pc = "voice_tauA", !.w = v.wave], v |-> v]
      [] r.pc = "voice_tauA" ->
            [r |-> [r EXCEPT !.pc = "voice_tauB",
                             !.ta = fmaxf(Frac(1, 10000), v.tauA)],
             v |-> v]
      [] r.pc = "voice_tauB" ->
            [r |-> [r EXCEPT !.pc = "voice_decay",
                             !.tb = fmaxf(Frac(1, 10000), v.tauB)],
             v |-> v]
      [] r.pc = "voice_decay" ->
            [r |-> At(r, "voice_phase"),
             v |-> [v EXCEPT !.Astate = FMul(v.Astate, decay(r.ta)),
                             !.Bstate = FMul(v.Bstate, decay(r.tb))]]
      [] r.pc = "voice_phase" ->
            LET k == v.Astate - v.Bstate
                duty == clampf(v.dutyBias + (k \div 4), Frac(1, 100), Frac(99, 100))
                p1 == v.phase + (r.f \div ENGINE_SR)
                phase == IF p1 >= F(1) THEN p1 - F(1) ELSE p1
                y == IF r.w = W_SINE THEN sinf_2pi(phase)
                     ELSE IF phase < duty THEN F(1) ELSE F(-1)
            IN  [r |-> Return(r, FMul(y, r.g)), v |-> [v EXCEPT !.phase = phase]]

\* voice_tick run to its return by the render thread alone.
RECURSIVE voice_tick_run(_)
voice_tick_run(t) ==
    IF t.r.pc = "idle" THEN t ELSE voice_tick_run(voice_tick_step(t.r, t.v))

voice_tick(v) ==
    LET t == voice_tick_run([r |-> VoiceTickStart(0), v |-> v])
    IN  [v |-> t.v, out |-> t.r.out,
         took |-> IF voice_on(v) = 0 THEN 0 ELSE v.spikes - t.v.spikes]

(***************************************************************************)
(* One frame of data_cb run by the render thread alone, up to the mono     *)
(* accumulators: chMono is zeroed, every playing slot and then every on    *)
(* voice is ticked and its sample added to its channel's accumulator.      *)
(* took[v] is what voice v's tick drained from its spike counter.          *)
(***************************************************************************)
RECURSIVE data_cb_slots(_, _, _)
data_cb_slots(g, h, si) ==
    IF si >= NUM_SLOTS THEN g
    ELSE IF slot_playing(g.slots[si]) = 0 THEN data_cb_slots(g, h, si + 1)
    ELSE LET ch == clampi(g.slots[si].assignedCh, 0, NUM_CHANNELS - 1)
             t == slot_tick(g.slots[si], h)
         IN  data_cb_slots([g EXCEPT !.slots[si] = t.s,
                                     !.chMono[ch] = FAdd(@, t.out)],
                           h, si + 1)

RECURSIVE data_cb_voices(_, _)
data_cb_voices(f, vi) ==
    IF vi >= NUM_VOICES THEN f
    ELSE IF voice_on(f.g.voices[vi]) = 0 THEN data_cb_voices(f, vi + 1)
    ELSE LET ch == clampi(f.g.voices[vi].assignedCh, 0, NUM_CHANNELS - 1)
             t == voice_tick(f.g.voices[vi])
         IN  data_cb_voices([g |-> [f.g EXCEPT !.voices[vi] = t.v,
                                               !.chMono[ch] = FAdd(@, t.out)],
                             took |-> [f.took EXCEPT ![vi] = t.took]],
                            vi + 1)

data_cb_mono(g, h) ==
    LET g0 == [g EXCEPT !.chMono = [c \in 0 .. NUM_CHANNELS - 1 |-> 0]]
    IN  data_cb_voices([g |-> data_cb_slots(g0, h, 0),
                        took |-> [v \in 0 .. NUM_VOICES - 1 |-> 0]], 0)

\* A note-on of note 36 or 38 triggers slot 0 or 1, loaded or not.
osc_handle_raw_note_any(g, note, velocity) ==
    IF velocity > 0
    THEN IF note = 36
         THEN [g EXCEPT !.slots[0].playing = 1, !.slots[0].pos = 0]
         ELSE IF note = 38
         THEN [g EXCEPT !.slots[1].playing = 1, !.slots[1].pos = 0]
         ELSE g
    ELSE g

\* osc_handle_raw_note: a note-on of note 36 or 38 triggers slot 0 or 1
\* if it is loaded.
osc_handle_raw_note(g, note, velocity) ==
    IF velocity > 0
    THEN IF note = 36 /\ g.slots[0].loaded # 0
         THEN [g EXCEPT !.slots[0].playing = 1, !.slots[0].pos = 0]
         ELSE IF note = 38 /\ g.slots[1].loaded # 0
         THEN [g EXCEPT !.slots[1].playing = 1, !.slots[1].pos = 0]
         ELSE g
    ELSE g

(***************************************************************************)
(* The bridge: a message is its address path and one argument; the         *)
(* handlers parse the path with sscanf.                                    *)
(***************************************************************************)
\* a * k for a float a and a whole number k.
FScale(a, k) == IF a \in {NaN, Wild} THEN a ELSE a * k

StartsWith(s, p) == Len(s) >= Len(p) /\ SubSeq(s, 1, Len(p)) = p

\* The position of the first '/' of s at or after i, Len(s)+1 if none.
SlashFrom(s, i) ==
    LET at == {j \in i .. Len(s) : Char(s, j) = "/"}
    IN  IF at = {} THEN Len(s) + 1 ELSE First(at)

\* sscanf(path, "/midi/mapped/%7[^/]/%63s", variant, semantic): the number
\* of conversions done, and the semantic name when both were.
sscanf_mapped(path) ==
    LET p == "/midi/mapped/"
        i == Len(p) + 1
        w == SlashFrom(path, i) - i
        vlen == IF w > 7 THEN 7 ELSE w
        rest == SubSeq(path, i + vlen + 1, Len(path))
    IN  IF ~StartsWith(path, p) \/ vlen = 0 THEN [n |-> 0, semantic |-> ""]
        ELSE IF i + vlen > Len(path) \/ Char(path, i + vlen) # "/" \/ rest = ""
        THEN [n |-> 1, semantic |-> ""]
        ELSE [n |-> 2, semantic |-> strncpy(rest, 63)]

\* %d at position i of s: optional sign and digits; ok when there is a digit.
scan_int(s, i) ==
    LET signed == i <= Len(s) /\ Char(s, i) \in {"-", "+"}
        r == ParseDigits(s, IF signed THEN i + 1 ELSE i, 0)
    IN  [ok |-> r.next > (IF signed THEN i + 1 ELSE i),
         val |-> IF signed /\ Char(s, i) = "-" THEN 0 - r.val ELSE r.val,
         next |-> r.next]

\* sscanf(path, p "%d/%d", &a, &b): the number of conversions done, a and b.
sscanf_ints(path, p) ==
    LET a == scan_int(path, Len(p) + 1)
        b == scan_int(path, a.next + 1)
    IN  IF ~StartsWith(path, p) \/ ~a.ok THEN [n |-> 0, a |-> 0, b |-> 0]
        ELSE IF a.next > Len(path) \/ Char(path, a.next) # "/" \/ ~b.ok
        THEN [n |-> 1, a |-> a.val, b |-> 0]
        ELSE [n |-> 2, a |-> a.val, b |-> b.val]

\* osc_handle_mapped: the semantic name selects the parameter stored.
osc_handle_mapped(g, path, value) ==
    LET r == sscanf_mapped(path)
        s == r.semantic
    IN  IF r.n # 2 THEN g
        ELSE IF s = "VOLUME_1" THEN [g EXCEPT !.ch[0].gain = value]
        ELSE IF s = "VOLUME_2" THEN [g EXCEPT !.ch[1].gain = value]
        ELSE IF s = "VOLUME_3" THEN [g EXCEPT !.ch[2].gain = value]
        ELSE IF s = "VOLUME_4" THEN [g EXCEPT !.ch[3].gain = value]
        ELSE IF s = "PAN_1"
        THEN [g EXCEPT !.ch[0].pan = FAdd(FScale(value, 2), F(-1))]
        ELSE IF s = "PAN_2"
        THEN [g EXCEPT !.ch[1].pan = FAdd(FScale(value, 2), F(-1))]
        ELSE IF s = "FILTER_CUTOFF"
        THEN [g EXCEPT !.ch[0].filt.cutoff = FAdd(F(100), FScale(value, 7900))]
        ELSE IF s = "MASTER_VOLUME" THEN [g EXCEPT !.masterGain = value]
        ELSE g

\* osc_handle_raw_cc storing the controller value as it came, not over 127.
osc_handle_raw_cc_raw(g, path, value) ==
    LET r == sscanf_ints(path, "/midi/raw/cc/")
    IN  IF r.n # 2 THEN g
        ELSE IF r.a = 1 /\ r.b = 7
        THEN [g EXCEPT !.masterGain = F(value)]
        ELSE g

\* osc_handle_raw_cc: controller 7 on channel 1 sets the master gain.
osc_handle_raw_cc(g, path, value) ==
    LET r == sscanf_ints(path, "/midi/raw/cc/")
    IN  IF r.n # 2 THEN g
        ELSE IF r.a = 1 /\ r.b = 7
        THEN [g EXCEPT !.masterGain = Frac(value, 127)]
        ELSE g

\* osc_handle_raw_note from its sscanf on.
osc_raw_note(g, path, velocity) ==
    LET r == sscanf_ints(path, "/midi/raw/note/")
    IN  IF r.n # 2 THEN g ELSE osc_handle_raw_note(g, r.b, velocity)

\* The methods osc_start registers: the handler for the address pattern
\* and argument type of m, if any.
lo_dispatch(g, m) ==
    LET two(p) == /\ StartsWith(m.path, p)
                  /\ SlashFrom(m.path, Len(p) + 1) < Len(m.path)
                  /\ SlashFrom(m.path, SlashFrom(m.path, Len(p) + 1) + 1)
                        > Len(m.path)
    IN  IF m.type = "f" /\ two("/midi/mapped/")
        THEN osc_handle_mapped(g, m.path, m.arg)
        ELSE IF m.type = "i" /\ two("/midi/raw/cc/")
        THEN osc_handle_raw_cc(g, m.path, m.arg)
        ELSE IF m.type = "i" /\ two("/midi/raw/note/")
        THEN osc_raw_note(g, m.path, m.arg)
        ELSE g

(***************************************************************************)
(* The subscriber list: srv_add_subscriber and srv_broadcast.              *)
(***************************************************************************)
\* What sendto to the endpoint bound at `path` returns: "ok"; "dead" for
\* ECONNREFUSED, ENOENT or ENOTCONN; "err" for any other failure.
sendto(path) ==
    IF path \in gone THEN "dead" ELSE IF path \in busy THEN "err" ELSE "ok"

\* srv_add_subscriber storing the new entry at index 0 instead of sub_count.
srv_add_subscriber_front(sub, path) ==
    IF Len(sub) >= MAX_SUBSCRIBERS THEN sub
    ELSE IF \E i \in 1 .. Len(sub) : sub[i] = path THEN sub
    ELSE <<strncpy(path, SOCKET_PATH_MAX - 1)>> \o sub

srv_add_subscriber(sub, path) ==
    IF Len(sub) >= MAX_SUBSCRIBERS THEN sub
    ELSE IF \E i \in 1 .. Len(sub) : sub[i] = path THEN sub
    ELSE Append(sub, strncpy(path, SOCKET_PATH_MAX - 1))

\* The compaction loop of srv_broadcast: entry i (from 0) removed, the
\* entries after it moved down by one, sub_count decremented.
RemoveAt(sub, i) ==
    [j \in 1 .. Len(sub) - 1 |-> IF j < i + 1 THEN sub[j] ELSE sub[j + 1]]

\* The loop of srv_broadcast with i incremented after a removal as well.
RECURSIVE srv_broadcast_from_skip(_, _, _, _)
srv_broadcast_from_skip(sub, i, event, sends) ==
    IF i < Len(sub)
    THEN LET res == sendto(sub[i + 1])
             call == [to |-> sub[i + 1], msg |-> event, res |-> res]
         IN  IF res = "dead"
             THEN srv_broadcast_from_skip(RemoveAt(sub, i), i + 1, event,
                                          Append(sends, call))
             ELSE srv_broadcast_from_skip(sub, i + 1, event, Append(sends, call))
    ELSE [sub |-> sub, sends |-> sends]

\* The while loop of srv_broadcast from index i (from 0); sends collects
\* the sendto calls made.
RECURSIVE srv_broadcast_from(_, _, _, _)
srv_broadcast_from(sub, i, event, sends) ==
    IF i < Len(sub)
    THEN LET res == sendto(sub[i + 1])
             call == [to |-> sub[i + 1], msg |-> event, res |-> res]
         IN  IF res = "dead"
             THEN srv_broadcast_from(RemoveAt(sub, i), i, event, Append(sends, call))
             ELSE srv_broadcast_from(sub, i + 1, event, Append(sends, call))
    ELSE [sub |-> sub, sends |-> sends]

srv_broadcast(sub, event) == srv_broadcast_from(sub, 0, event, <<>>)

(***************************************************************************)
(* process_command.  st = [G, heap, sub, running, sends] is what the       *)
(* command may change; every branch yields the new st and the response.    *)
(* Tok(toks, k) is tokens[k] of the C code; o is what the decoder does     *)
(* with the file of a SAMPLE LOAD.                                         *)
(***************************************************************************)
PATH_BUF == 1024

Tok(toks, k) == toks[k + 1]

Msg(fmt, args) == [fmt |-> fmt, args |-> args]

Reply(st, fmt, args) == [st |-> st, response |-> Msg(fmt, args)]

Broadcast(st, fmt, args) ==
    LET r == srv_broadcast(st.sub, Msg(fmt, args))
    IN  [st EXCEPT !.sub = r.sub, !.sends = st.sends \o r.sends]

IsError(msg) == Len(msg.fmt) >= 5 /\ SubSeq(msg.fmt, 1, 5) = "ERROR"
IsOk(msg) == Len(msg.fmt) >= 2 /\ SubSeq(msg.fmt, 1, 2) = "OK"
IsEvent(msg) == Len(msg.fmt) >= 5 /\ SubSeq(msg.fmt, 1, 5) = "EVENT"

cmd_subscribe(st, toks) ==
    IF Len(toks) < 2
    THEN Reply(st, "ERROR Missing socket path", <<>>)
    ELSE Reply([st EXCEPT !.sub = srv_add_subscriber(st.sub, Tok(toks, 1))],
               "OK Subscribed", <<>>)

\* MASTER that stores the gain and replies without announcing it.
cmd_master_quiet(st, toks) ==
    IF Len(toks) < 2
    THEN Reply(st, "ERROR Missing gain value", <<>>)
    ELSE LET gain == clampf(atof(Tok(toks, 1)), F(0), F(10))
         IN  Reply([st EXCEPT !.G.masterGain = gain], "OK MASTER %.3f", <<gain>>)

cmd_master(st, toks) ==
    IF Len(toks) < 2
    THEN Reply(st, "ERROR Missing gain value", <<>>)
    ELSE LET gain == clampf(atof(Tok(toks, 1)), F(0), F(10))
             st1 == [st EXCEPT !.G.masterGain = gain]
         IN  Reply(Broadcast(st1, "EVENT MASTER %.3f", <<gain>>),
                   "OK MASTER %.3f", <<gain>>)

\* CH GAIN broadcasting the gain as given instead of the stored one.
cmd_ch_gain_raw_event(st, toks, ch) ==
    IF Len(toks) < 4
    THEN Reply(st, "ERROR Missing gain value", <<>>)
    ELSE LET gain == clampf(atof(Tok(toks, 3)), F(0), F(10))
             st1 == [st EXCEPT !.G.ch[ch - 1].gain = gain]
         IN  Reply(Broadcast(st1, "EVENT CHANNEL %d GAIN %.3f",
                             <<ch, atof(Tok(toks, 3))>>),
                   "OK CH %d GAIN %.3f", <<ch, gain>>)

cmd_ch_gain(st, toks, ch) ==
    IF Len(toks) < 4
    THEN Reply(st, "ERROR Missing gain value", <<>>)
    ELSE LET gain == clampf(atof(Tok(toks, 3)), F(0), F(10))
             st1 == [st EXCEPT !.G.ch[ch - 1].gain = gain]
         IN  Reply(Broadcast(st1, "EVENT CHANNEL %d GAIN %.3f", <<ch, gain>>),
                   "OK CH %d GAIN %.3f", <<ch, gain>>)

cmd_ch_pan(st, toks, ch) ==
    IF Len(toks) < 4
    THEN Reply(st, "ERROR Missing pan value", <<>>)
    ELSE LET pan == clampf(atof(Tok(toks, 3)), F(-1), F(1))
             st1 == [st EXCEPT !.G.ch[ch - 1].pan = pan]
         IN  Reply(Broadcast(st1, "EVENT CHANNEL %d PAN %.3f", <<ch, pan>>),
                   "OK CH %d PAN %.3f", <<ch, pan>>)

\* CH FILTER that also clears the integrators of the filter it retunes.
cmd_ch_filter_reset(st, toks, ch) ==
    IF Len(toks) < 6
    THEN Reply(st, "ERROR FILTER <type> <cutoff> <q>", <<>>)
    ELSE LET type == clampi(atoi(Tok(toks, 3)), F_OFF, F_BP)
             cutoff == fmaxf(F(20), atof(Tok(toks, 4)))
             q == fmaxf(Frac(1, 10), atof(Tok(toks, 5)))
         IN  Reply([st EXCEPT !.G.ch[ch - 1].filt.type = type,
                              !.G.ch[ch - 1].filt.cutoff = cutoff,
                              !.G.ch[ch - 1].filt.q = q,
                              !.G.ch[ch - 1].filt.ic1eq = 0,
                              !.G.ch[ch - 1].filt.ic2eq = 0],
                   "OK CH %d FILTER %d %.1f %.3f", <<ch, type, cutoff, q>>)

cmd_ch_filter(st, toks, ch) ==
    IF Len(toks) < 6
    THEN Reply(st, "ERROR FILTER <type> <cutoff> <q>", <<>>)
    ELSE LET type == clampi(atoi(Tok(toks, 3)), F_OFF, F_BP)
             cutoff == fmaxf(F(20), atof(Tok(toks, 4)))
             q == fmaxf(Frac(1, 10), atof(Tok(toks, 5)))
         IN  Reply([st EXCEPT !.G.ch[ch - 1].filt.type = type,
                              !.G.ch[ch - 1].filt.cutoff = cutoff,
                              !.G.ch[ch - 1].filt.q = q],
                   "OK CH %d FILTER %d %.1f %.3f", <<ch, type, cutoff, q>>)

\* The channel index check with its lower bound off by one.
invalid_channel_from0(ch) == ch < 0 \/ ch > NUM_CHANNELS

\* if (ch < 1 || ch > NUM_CHANNELS)
invalid_channel(ch) == ch < 1 \/ ch > NUM_CHANNELS

cmd_ch(st, toks) ==
    IF Len(toks) < 3
    THEN Reply(st, "ERROR CH <n> <param> <value>", <<>>)
    ELSE LET ch == atoi(Tok(toks, 1))
         IN  IF invalid_channel(ch)
             THEN Reply(st, "ERROR Invalid channel %d", <<ch>>)
             ELSE IF Tok(toks, 2) = "GAIN" THEN cmd_ch_gain(st, toks, ch)
             ELSE IF Tok(toks, 2) = "PAN" THEN cmd_ch_pan(st, toks, ch)
             ELSE IF Tok(toks, 2) = "FILTER" THEN cmd_ch_filter(st, toks, ch)
             ELSE Reply(st, "ERROR Unknown CH param: %s", <<Tok(toks, 2)>>)

\* if (vi < 1 || vi > NUM_VOICES)
invalid_voice(vi) == vi < 1 \/ vi > NUM_VOICES

cmd_voice(st, toks) ==
    IF Len(toks) < 3
    THEN Reply(st, "ERROR VOICE <n> <cmd>", <<>>)
    ELSE
    LET vi == atoi(Tok(toks, 1))
        c == Tok(toks, 2)
    IN  IF invalid_voice(vi)
        THEN Reply(st, "ERROR Invalid voice %d", <<vi>>)
        ELSE IF c = "ON"
        THEN Reply(Broadcast([st EXCEPT !.G.voices[vi - 1].on = 1],
                             "EVENT VOICE %d ON", <<vi>>),
                   "OK VOICE %d ON", <<vi>>)
        ELSE IF c = "OFF"
        THEN Reply(Broadcast([st EXCEPT !.G.voices[vi - 1].on = 0],
                             "EVENT VOICE %d OFF", <<vi>>),
                   "OK VOICE %d OFF", <<vi>>)
        ELSE IF c = "WAVE"
        THEN IF Len(toks) < 4
             THEN Reply(st, "ERROR Missing wave value", <<>>)
             ELSE LET wave == IF atoi(Tok(toks, 3)) # 0 THEN W_PULSE ELSE W_SINE
                  IN  Reply([st EXCEPT !.G.voices[vi - 1].wave = wave],
                            "OK VOICE %d WAVE %d", <<vi, wave>>)
        ELSE IF c = "FREQ"
        THEN IF Len(toks) < 4
             THEN Reply(st, "ERROR Missing frequency", <<>>)
             ELSE LET freq == fmaxf(F(1), atof(Tok(toks, 3)))
                  IN  Reply([st EXCEPT !.G.voices[vi - 1].freq = freq],
                            "OK VOICE %d FREQ %.2f", <<vi, freq>>)
        ELSE IF c = "GAIN"
        THEN IF Len(toks) < 4
             THEN Reply(st, "ERROR Missing gain", <<>>)
             ELSE LET gain == clampf(atof(Tok(toks, 3)), F(0), F(2))
                  IN  Reply([st EXCEPT !.G.voices[vi - 1].gain = gain],
                            "OK VOICE %d GAIN %.3f", <<vi, gain>>)
        ELSE IF c = "CHAN"
        THEN IF Len(toks) < 4
             THEN Reply(st, "ERROR Missing channel", <<>>)
             ELSE LET ch == clampi(atoi(Tok(toks, 3)), 0, NUM_CHANNELS - 1)
                  IN  Reply([st EXCEPT !.G.voices[vi - 1].assignedCh = ch],
                            "OK VOICE %d CHAN %d", <<vi, ch>>)
        ELSE IF c = "SPIKE"
        THEN Reply([st EXCEPT !.G.voices[vi - 1].spikes = @ + 1],
                   "OK VOICE %d SPIKE", <<vi>>)
        ELSE IF c = "TAU"
        THEN IF Len(toks) < 5
             THEN Reply(st, "ERROR TAU <tau_a> <tau_b>", <<>>)
             ELSE LET ta == fmaxf(Frac(1, 10000), atof(Tok(toks, 3)))
                      tb == fmaxf(Frac(1, 10000), atof(Tok(toks, 4)))
                  IN  Reply([st EXCEPT !.G.voices[vi - 1].tauA = ta,
                                       !.G.voices[vi - 1].tauB = tb],
                            "OK VOICE %d TAU %.4f %.4f", <<vi, ta, tb>>)
        ELSE Reply(st, "ERROR Unknown VOICE cmd: %s", <<c>>)

\* The path of SAMPLE LOAD: tokens[3 ..] joined by single spaces into
\* char path[1024], refused when it would not fit.
RECURSIVE JoinPath(_, _, _)
JoinPath(toks, i, path) ==
    IF i >= Len(toks) THEN [ok |-> TRUE, path |-> path]
    ELSE IF i > 3 /\ Len(path) + 1 >= PATH_BUF - 1
    THEN [ok |-> FALSE, path |-> path]
    ELSE LET p1 == IF i > 3 THEN path \o " " ELSE path
         IN  IF Len(p1) + Len(Tok(toks, i)) >= PATH_BUF - 1
             THEN [ok |-> FALSE, path |-> path]
             ELSE JoinPath(toks, i + 1, p1 \o Tok(toks, i))

\* The reply of SAMPLE LOAD once slot_load_path has returned ret.
load_reply(st, si, path, ret) ==
    IF ret # 0
    THEN Reply(st, "ERROR Failed to load: %s (code %d)", <<path, ret>>)
    ELSE Reply(st, "OK SAMPLE %d LOADED %s", <<si, path>>)

cmd_sample_load(st, toks, si, o) ==
    IF Len(toks) < 4
    THEN Reply(st, "ERROR Missing path", <<>>)
    ELSE LET jp == JoinPath(toks, 3, "")
         IN  IF ~jp.ok
             THEN Reply(st, "ERROR Path too long", <<>>)
             ELSE LET r == slot_load_path(st.G.slots[si - 1], st.heap, o)
                  IN  load_reply([st EXCEPT !.G.slots[si - 1] = r.s, !.heap = r.h],
                                 si, jp.path, r.c.ret)

\* SAMPLE TRIG with the loaded check missing.
cmd_sample_trig_unchecked(st, si) ==
    Reply(Broadcast([st EXCEPT !.G.slots[si - 1].playing = 1,
                               !.G.slots[si - 1].pos = 0],
                    "EVENT SAMPLE %d PLAYING", <<si>>),
          "OK SAMPLE %d TRIG", <<si>>)

cmd_sample_trig(st, si) ==
    IF st.G.slots[si - 1].loaded = 0
    THEN Reply(st, "ERROR Sample %d not loaded", <<si>>)
    ELSE Reply(Broadcast([st EXCEPT !.G.slots[si - 1].playing = 1,
                                    !.G.slots[si - 1].pos = 0],
                         "EVENT SAMPLE %d PLAYING", <<si>>),
               "OK SAMPLE %d TRIG", <<si>>)

\* (uint32_t)(time * G.sr) for time >= 0, with 2^32 = 89478 * 48000 + 23296.
\* A product of 2^32 or more is outside uint32_t and the conversion is
\* undefined: the build yields conv, whatever its conversion instruction
\* leaves.  A product from 44739 * 48000 up to 2^32 is exact in C; here it
\* is held at 44739 * 48000, above every buffer length of the model, since
\* the code only compares it with the length.
to_uint32(time, conv) ==
    LET whole == time \div F(1)
        part == ((time % F(1)) * ENGINE_SR_DEFAULT) \div F(1)
    IN  IF whole > 89478 \/ (whole = 89478 /\ part >= 23296) THEN conv
        ELSE IF whole >= 44739 THEN 44739 * ENGINE_SR_DEFAULT
        ELSE whole * ENGINE_SR_DEFAULT + part

cmd_sample_seek(st, toks, si, o) ==
    IF Len(toks) < 4
    THEN Reply(st, "ERROR Missing seek time", <<>>)
    ELSE IF st.G.slots[si - 1].loaded = 0
    THEN Reply(st, "ERROR Sample %d not loaded", <<si>>)
    ELSE LET S == st.G.slots[si - 1]
             time == fmaxf(F(0), atof(Tok(toks, 3)))
             pos0 == to_uint32(time, o.conv)
             target_pos == IF pos0 >= S.length
                           THEN (IF S.length > 0 THEN S.length - 1 ELSE 0)
                           ELSE pos0
         IN  Reply([st EXCEPT !.G.slots[si - 1].pos = target_pos],
                   "OK SAMPLE %d SEEK %.3f", <<si, Frac(target_pos, ENGINE_SR_DEFAULT)>>)

\* if (si < 1 || si > NUM_SLOTS)
invalid_slot(si) == si < 1 \/ si > NUM_SLOTS

cmd_sample(st, toks, o) ==
    IF Len(toks) < 3
    THEN Reply(st, "ERROR SAMPLE <n> <cmd>", <<>>)
    ELSE
    LET si == atoi(Tok(toks, 1))
        c == Tok(toks, 2)
    IN  IF invalid_slot(si)
        THEN Reply(st, "ERROR Invalid sample slot %d", <<si>>)
        ELSE IF c = "LOAD" THEN cmd_sample_load(st, toks, si, o)
        ELSE IF c = "TRIG" THEN cmd_sample_trig(st, si)
        ELSE IF c = "STOP"
        THEN Reply([st EXCEPT !.G.slots[si - 1].playing = 0,
                              !.G.slots[si - 1].pos = 0],
                   "OK SAMPLE %d STOP", <<si>>)
        ELSE IF c = "GAIN"
        THEN IF Len(toks) < 4
             THEN Reply(st, "ERROR Missing gain", <<>>)
             ELSE LET gain == clampf(atof(Tok(toks, 3)), F(0), F(10))
                  IN  Reply([st EXCEPT !.G.slots[si - 1].gain = gain],
                            "OK SAMPLE %d GAIN %.3f", <<si, gain>>)
        ELSE IF c = "CHAN"
        THEN IF Len(toks) < 4
             THEN Reply(st, "ERROR Missing channel", <<>>)
             ELSE LET ch == clampi(atoi(Tok(toks, 3)), 0, NUM_CHANNELS - 1)
                  IN  Reply([st EXCEPT !.G.slots[si - 1].assignedCh = ch],
                            "OK SAMPLE %d CHAN %d", <<si, ch>>)
        ELSE IF c = "LOOP"
        THEN IF Len(toks) < 4
             THEN Reply(st, "ERROR Missing loop value (0 or 1)", <<>>)
             ELSE LET loop == IF atoi(Tok(toks, 3)) # 0 THEN 1 ELSE 0
                  IN  Reply([st EXCEPT !.G.slots[si - 1].loop = loop],
                            "OK SAMPLE %d LOOP %d", <<si, loop>>)
        ELSE IF c = "SEEK" THEN cmd_sample_seek(st, toks, si, o)
        ELSE Reply(st, "ERROR Unknown SAMPLE cmd: %s", <<c>>)

process_command(st, toks, o) ==
    IF Len(toks) = 0 THEN Reply(st, "ERROR Empty command", <<>>)
    ELSE IF Tok(toks, 0) = "INIT" THEN Reply(st, "OK READY", <<>>)
    ELSE IF Tok(toks, 0) = "STATUS" THEN Reply(st, "OK STATUS running", <<>>)
    ELSE IF Tok(toks, 0) = "SUBSCRIBE" THEN cmd_subscribe(st, toks)
    ELSE IF Tok(toks, 0) = "MASTER" THEN cmd_master(st, toks)
    ELSE IF Tok(toks, 0) = "CH" THEN cmd_ch(st, toks)
    ELSE IF Tok(toks, 0) = "VOICE" THEN cmd_voice(st, toks)
    ELSE IF Tok(toks, 0) = "SAMPLE" THEN cmd_sample(st, toks, o)
    ELSE IF Tok(toks, 0) = "QUIT"
    THEN Reply([st EXCEPT !.running = 0], "OK Shutting down", <<>>)
    ELSE Reply(st, "ERROR Unknown command: %s", <<Tok(toks, 0)>>)

(***************************************************************************)
(* dgram_thread: one iteration of its loop, for a datagram d that         *)
(* recvfrom returns: d.from is the sender's bound address, d.text the      *)
(* bytes, d.toks the tokens strtok finds in them.  A datagram of no bytes  *)
(* makes recvfrom return 0 and the loop `continue`.                        *)
(***************************************************************************)
NoOutcome == [fail |-> 0, frames |-> 0]

IsLoad(toks) == Len(toks) >= 3 /\ Tok(toks, 0) = "SAMPLE" /\ Tok(toks, 2) = "LOAD"

\* What the run has seen so far, kept to state properties and to bound
\* the run: for each voice the SPIKE commands accepted and the totals that
\* ticks have added to its registers A and B, the frames rendered and the
\* bridge messages handled since the last command, and the voice ticks
\* the render thread has started step by step.
hist_init ==
    [accepted |-> [v \in 0 .. NUM_VOICES - 1 |-> 0],
     addedA |-> [v \in 0 .. NUM_VOICES - 1 |-> 0],
     addedB |-> [v \in 0 .. NUM_VOICES - 1 |-> 0],
     frames |-> 0, notes |-> 0, ticks |-> 0]

\* The SPIKE commands a run may have accepted per voice.
MaxSpikes == 2

IsSpike(toks) ==
    /\ Len(toks) >= 3
    /\ Tok(toks, 0) = "VOICE"
    /\ ~invalid_voice(atoi(Tok(toks, 1)))
    /\ Tok(toks, 2) = "SPIKE"

\* hist after a command answered with resp.
Answered(h, resp) ==
    IF resp.fmt = "OK VOICE %d SPIKE"
    THEN [h EXCEPT !.accepted[resp.args[1] - 1] = @ + 1,
                   !.frames = 0, !.notes = 0]
    ELSE [h EXCEPT !.frames = 0, !.notes = 0]

dgram_iteration(d, o) ==
    /\ running = 1
    /\ cmd.pc = "idle"
    /\ IsSpike(d.toks) => hist.accepted[atoi(Tok(d.toks, 1)) - 1] < MaxSpikes
    /\ n' = Len(d.text)
    /\ client_addr' = d.from
    /\ IF Len(d.text) <= 0
       THEN /\ sent' = <<>>
            /\ UNCHANGED <<G, heap, subscribers, running, buf, response, hist>>
       ELSE LET r == process_command(
                        [G |-> G, heap |-> heap, sub |-> subscribers,
                         running |-> running, sends |-> <<>>],
                        d.toks, o)
            IN  /\ buf' = d.text
                /\ G' = r.st.G
                /\ heap' = r.st.heap
                /\ subscribers' = r.st.sub
                /\ running' = r.st.running
                /\ response' = r.response
                /\ hist' = Answered(hist, r.response)
                /\ sent' = Append(r.st.sends,
                                  [to |-> d.from, msg |-> r.response,
                                   res |-> sendto(d.from)])
    /\ UNCHANGED <<proc, gone, busy, cmd, render>>

\* The decoder outcomes tried for a SAMPLE LOAD.
MaxFrames == 2

LoadOutcomes ==
    {[fail |-> f, frames |-> 0] : f \in 1 .. 3}
        \cup {[fail |-> f, frames |-> k] : f \in {0, 4}, k \in 0 .. MaxFrames}

Outcomes(toks) == IF IsLoad(toks) THEN LoadOutcomes ELSE {NoOutcome}

DgramThread(D) == \E d \in D : \E o \in Outcomes(d.toks) : dgram_iteration(d, o)

(***************************************************************************)
(* The environment: a subscriber's socket goes away, comes back, or its    *)
(* receive queue fills or drains.                                          *)
(***************************************************************************)
EndpointGone(E) ==
    /\ \E p \in E \ gone : gone' = gone \cup {p}
    /\ UNCHANGED <<proc, G, heap, subscribers, running, busy,
                   n, client_addr, buf, response, sent, cmd, render, hist>>

EndpointBack(E) ==
    /\ \E p \in gone : gone' = gone \ {p}
    /\ UNCHANGED <<proc, G, heap, subscribers, running, busy,
                   n, client_addr, buf, response, sent, cmd, render, hist>>

EndpointBusy(E) ==
    /\ \E p \in E : busy' = (IF p \in busy THEN busy \ {p} ELSE busy \cup {p})
    /\ UNCHANGED <<proc, G, heap, subscribers, running, gone,
                   n, client_addr, buf, response, sent, cmd, render, hist>>

\* Where the bridge thread is inside osc_handle_raw_note, and at which slot.
NoteIdle == [pc |-> "idle", slot |-> 0]

\* The process once main has reached its loop: the engine is initialised,
\* the control socket is bound at its path, the command thread, the bridge
\* thread and the audio device run, and the bridge handles no message.
\* `started` keeps which of them were ever started, `exit` the exit status
\* (-1 while the process runs), `sub_lock` whether the subscriber mutex is
\* locked (srv_init leaves it unlocked).
proc_running ==
    [pc |-> "loop", path |-> "ours", sock |-> "bound", th |-> "running",
     osc |-> 1, audio |-> 1, started |-> {"cmd", "osc", "render"},
     exit |-> -1, note |-> NoteIdle, sub_lock |-> 0]

Init ==
    /\ G = engine_init
    /\ heap = heap_init
    /\ subscribers = <<>>
    /\ running = 1
    /\ gone = {}
    /\ busy = {}
    /\ n = -1
    /\ client_addr = ""
    /\ buf = ""
    /\ response = Msg("", <<>>)
    /\ sent = <<>>
    /\ cmd = LoadIdle
    /\ render = RenderIdle
    /\ hist = hist_init
    /\ proc = proc_running

(***************************************************************************)
(* The datagrams a run draws from: each text sent from each address.       *)
(***************************************************************************)
Datagrams(froms, texts) ==
    {[from |-> f, text |-> t, toks |-> Tokenize(t)] : f \in froms, t \in texts}

(***************************************************************************)
(* Spec: the control socket under empty datagrams, commands with bad and   *)
(* good indices, and one subscriber that may go away.                      *)
(***************************************************************************)
CtlTexts ==
    {"", " ", "INIT", "STATUS", "BOGUS 1", "QUIT", "SUBSCRIBE /tmp/sub1",
     "MASTER 0.5", "CH 1 PAN 1", "VOICE 1 ON",
     "CH 0 GAIN 5", "CH 5 PAN 0.5", "CH -1 FILTER 1 500 1", "CH x", "CH 9 BOGUS 1",
     "VOICE 0 ON", "VOICE 9 GAIN 1", "VOICE 9 SPIKE", "VOICE 12",
     "SAMPLE 0 TRIG", "SAMPLE 17 LOAD /tmp/a.wav", "SAMPLE 17 GAIN 1", "SAMPLE 99 STOP"}

CtlDatagrams == Datagrams({"/tmp/cli1", "/tmp/cli2"}, CtlTexts)

Next ==
    \/ DgramThread(CtlDatagrams)
    \/ EndpointGone({"/tmp/sub1"})
    \/ EndpointBack({"/tmp/sub1"})

Spec == Init /\ [][Next]_vars

(***************************************************************************)
(* What the claims read off a state: the tokens of the command last        *)
(* handled, the replies and the events among the sendto calls.             *)
(***************************************************************************)
Handled == n > 0

Toks == Tokenize(buf)

NotEvent(call) == ~IsEvent(call.msg)

EventCall(call) == IsEvent(call.msg)

Replies(calls) == SelectSeq(calls, NotEvent)

Events(calls) == SelectSeq(calls, EventCall)

\* C4: every datagram received on the control socket, a zero-length one
\* and a whitespace-only one included, produces exactly one reply
\* datagram, addressed to the endpoint that sent it.
C4_OneReplyPerDatagram ==
    n >= 0 => /\ Len(Replies(sent)) = 1
              /\ Replies(sent)[1].to = client_addr

\* A CH, VOICE or SAMPLE command whose index is outside 1..4, 1..8, 1..16.
BadIndexCmd(toks) ==
    /\ Len(toks) >= 2
    /\ \/ Tok(toks, 0) = "CH" /\ atoi(Tok(toks, 1)) \notin 1 .. NUM_CHANNELS
       \/ Tok(toks, 0) = "VOICE" /\ atoi(Tok(toks, 1)) \notin 1 .. NUM_VOICES
       \/ Tok(toks, 0) = "SAMPLE" /\ atoi(Tok(toks, 1)) \notin 1 .. NUM_SLOTS

ParamTexts ==
    {"SUBSCRIBE /tmp/sub1",
     "MASTER -1", "MASTER 100", "MASTER nan",
     "CH 1 GAIN 11",
     "CH 1 PAN 5", "CH 1 PAN -0.5",
     "CH 1 FILTER 1 5 0.01", "CH 1 FILTER 3 500 100",
     "VOICE 1 GAIN 100",
     "SAMPLE 1 GAIN -3"}

ParamDatagrams == Datagrams({"/tmp/cli1"}, ParamTexts)

ParamNext == DgramThread(ParamDatagrams)

SpecParam == Init /\ [][ParamNext]_vars

\* The ranged parameter a command writes: its documented range and the
\* value the engine g stores for it.
IsRangedCmd(toks) ==
    \/ Len(toks) >= 2 /\ Tok(toks, 0) = "MASTER"
    \/ /\ Len(toks) >= 4
       /\ \/ /\ Tok(toks, 0) = "CH"
             /\ atoi(Tok(toks, 1)) \in 1 .. NUM_CHANNELS
             /\ Tok(toks, 2) \in {"GAIN", "PAN"}
          \/ /\ Tok(toks, 0) = "VOICE"
             /\ atoi(Tok(toks, 1)) \in 1 .. NUM_VOICES
             /\ Tok(toks, 2) = "GAIN"
          \/ /\ Tok(toks, 0) = "SAMPLE"
             /\ atoi(Tok(toks, 1)) \in 1 .. NUM_SLOTS
             /\ Tok(toks, 2) = "GAIN"

RangedArg(toks) ==
    IF Tok(toks, 0) = "MASTER" THEN atof(Tok(toks, 1)) ELSE atof(Tok(toks, 3))

RangeLo(toks) == IF Tok(toks, 0) = "CH" /\ Tok(toks, 2) = "PAN" THEN F(-1) ELSE F(0)

RangeHi(toks) ==
    IF Tok(toks, 0) = "CH" /\ Tok(toks, 2) = "PAN" THEN F(1)
    ELSE IF Tok(toks, 0) = "VOICE" THEN F(2)
    ELSE F(10)

Stored(toks, g) ==
    IF Tok(toks, 0) = "MASTER" THEN g.masterGain
    ELSE IF Tok(toks, 0) = "CH" /\ Tok(toks, 2) = "PAN"
         THEN g.ch[atoi(Tok(toks, 1)) - 1].pan
    ELSE IF Tok(toks, 0) = "CH" THEN g.ch[atoi(Tok(toks, 1)) - 1].gain
    ELSE IF Tok(toks, 0) = "VOICE" THEN g.voices[atoi(Tok(toks, 1)) - 1].gain
    ELSE g.slots[atoi(Tok(toks, 1)) - 1].gain

\* A number outside the parameter's documented range.
OutOfRangeCmd(toks) ==
    /\ IsRangedCmd(toks)
    /\ RangedArg(toks) # NaN
    /\ ~InRange(RangedArg(toks), RangeLo(toks), RangeHi(toks))

\* C6 as claimed: a command with a valid index and a parameter outside
\* its documented range is answered ERROR and mutates no state.
C6_OutOfRangeRejected ==
    [][\A d \in ParamDatagrams :
          (OutOfRangeCmd(d.toks) /\ dgram_iteration(d, NoOutcome))
              => IsError(response') /\ G' = G]_vars

\* C6 as amended: such a command is not refused; the parameter is set to
\* the bound of its range nearest the argument and the reply is OK and
\* reports the stored value.
C6_OutOfRangeClamped ==
    [][\A d \in ParamDatagrams :
          (OutOfRangeCmd(d.toks) /\ dgram_iteration(d, NoOutcome))
              => /\ IsOk(response')
                 /\ Stored(d.toks, G') =
                        (IF RangedArg(d.toks) < RangeLo(d.toks)
                         THEN RangeLo(d.toks) ELSE RangeHi(d.toks))
                 /\ response'.args[Len(response'.args)] = Stored(d.toks, G')]_vars

\* C6's case: a parameter above and one below their ranges have been
\* written and answered.
C6_Witness ==
    /\ Handled
    /\ OutOfRangeCmd(Toks)
    /\ G.ch[0].pan = F(1)
    /\ G.masterGain = F(0)
    /\ G.voices[0].gain = F(2)

\* C7: after any sequence of control-socket commands every stored master,
\* channel and slot gain is in [0,10], every voice gain in [0,2], every pan
\* in [-1,1] and every cutoff at least 20; the OK reply of a ranged
\* command reports the stored value.
C7_StoredInRange ==
    /\ InRange(G.masterGain, F(0), F(10))
    /\ \A c \in 0 .. NUM_CHANNELS - 1 :
          /\ InRange(G.ch[c].gain, F(0), F(10))
          /\ InRange(G.ch[c].pan, F(-1), F(1))
          /\ G.ch[c].filt.cutoff # NaN /\ G.ch[c].filt.cutoff >= F(20)
    /\ \A s \in 0 .. NUM_SLOTS - 1 : InRange(G.slots[s].gain, F(0), F(10))
    /\ \A v \in 0 .. NUM_VOICES - 1 : InRange(G.voices[v].gain, F(0), F(2))
    /\ (Handled /\ IsRangedCmd(Toks) /\ IsOk(response))
          => response.args[Len(response.args)] = Stored(Toks, G)

\* svf_update_coeffs: the Q the filter computes its coefficient k from.
svf_q(f) == clampf(f.q, Frac(1, 10), F(20))

SampleTexts ==
    {"SUBSCRIBE /tmp/sub1", "SAMPLE 1 LOAD /tmp/a.wav",
     "SAMPLE 1 TRIG", "SAMPLE 2 TRIG", "SAMPLE 1 STOP"}

SampleDatagrams == Datagrams({"/tmp/cli1"}, SampleTexts)

SampleNext ==
    \/ DgramThread(SampleDatagrams)
    \/ EndpointGone({"/tmp/sub1"})
    \/ EndpointBack({"/tmp/sub1"})

SpecSample == Init /\ [][SampleNext]_vars

SlotCmd(toks, c) ==
    /\ Len(toks) >= 3
    /\ Tok(toks, 0) = "SAMPLE"
    /\ atoi(Tok(toks, 1)) \in 1 .. NUM_SLOTS
    /\ Tok(toks, 2) = c

SlotOf(toks) == atoi(Tok(toks, 1)) - 1

\* C2: if SAMPLE <n> LOAD fails (decoder open, length query or allocation
\* failure) the reply is ERROR with a code and the slot is as it was
\* before the command: loaded, playing, buffer, length and cursor.
C2_FailedLoadKeepsSlot ==
    [][\A d \in SampleDatagrams : \A o \in LoadOutcomes :
          (SlotCmd(d.toks, "LOAD") /\ o.fail # 0 /\ dgram_iteration(d, o))
              => /\ IsError(response')
                 /\ G'.slots[SlotOf(d.toks)] = G.slots[SlotOf(d.toks)]
                 /\ heap' = heap]_vars

\* One EVENT SAMPLE n PLAYING to each subscriber of `subs`, in order.
OnePlayingEventEach(calls, subs, si) ==
    /\ Len(Events(calls)) = Len(subs)
    /\ \A i \in 1 .. Len(subs) :
          /\ Events(calls)[i].to = subs[i]
          /\ Events(calls)[i].msg = Msg("EVENT SAMPLE %d PLAYING", <<si>>)

\* C3: SAMPLE <n> TRIG on a slot that is not loaded replies ERROR, leaves
\* playing and the cursor unchanged and broadcasts no EVENT; on a loaded
\* slot it sets playing=1 and cursor=0, replies OK and broadcasts exactly
\* one EVENT SAMPLE n PLAYING.
C3_TrigNeedsLoaded ==
    [][\A d \in SampleDatagrams :
          (SlotCmd(d.toks, "TRIG") /\ dgram_iteration(d, NoOutcome))
              => IF G.slots[SlotOf(d.toks)].loaded = 0
                 THEN /\ IsError(response')
                      /\ G' = G
                      /\ Len(Events(sent')) = 0
                 ELSE /\ IsOk(response')
                      /\ G'.slots[SlotOf(d.toks)].playing = 1
                      /\ G'.slots[SlotOf(d.toks)].pos = 0
                      /\ OnePlayingEventEach(sent', subscribers,
                                             SlotOf(d.toks) + 1)]_vars

\* C3's case: a TRIG of a loaded slot has been answered and its event
\* sent to a subscriber.
C3_Witness ==
    /\ Handled
    /\ SlotCmd(Toks, "TRIG")
    /\ IsOk(response)
    /\ G.slots[SlotOf(Toks)].loaded = 1
    /\ G.slots[SlotOf(Toks)].playing = 1
    /\ Len(Events(sent)) = 1

(***************************************************************************)
(* SpecSub: clients subscribe a short socket path and one longer than      *)
(* sun_path, a command broadcasts, and the short path's socket may go      *)
(* away, so that the broadcast prunes it, or have a full receive queue.    *)
(***************************************************************************)
\* k copies of the text c, by halving.
RECURSIVE Repeat(_, _)
Repeat(c, k) ==
    IF k = 0 THEN ""
    ELSE LET half == Repeat(c, k \div 2)
         IN  IF k % 2 = 0 THEN half \o half ELSE half \o half \o c

\* A socket path of 110 characters, two more than sun_path can hold.
LongPathLen == 110

LongPath == "/tmp/" \o Repeat("x", LongPathLen - 5)

SubTexts ==
    {"SUBSCRIBE /tmp/sub1", "SUBSCRIBE " \o LongPath, "VOICE 1 ON", "STATUS"}

SubDatagrams == Datagrams({"/tmp/cli1"}, SubTexts)

SubNext ==
    \/ DgramThread(SubDatagrams)
    \/ EndpointGone({"/tmp/sub1"})
    \/ EndpointBack({"/tmp/sub1"})
    \/ EndpointBusy({"/tmp/sub1"})

SpecSub == Init /\ [][SubNext]_vars

\* C9: the subscriber list never holds the same socket path twice.
C9_NoDuplicateSubscribers ==
    \A i, j \in 1 .. Len(subscribers) :
        i # j => subscribers[i] # subscribers[j]

(***************************************************************************)
(* SpecFull: clients subscribe socket paths /tmp/s1, /tmp/s2, ... in       *)
(* turn, re-subscribe the first one, and ask for STATUS, until the list    *)
(* is full and one more path is offered.                                   *)
(***************************************************************************)
SubscribeText(k) == "SUBSCRIBE /tmp/s" \o ToString(k)

FullDatagrams ==
    Datagrams({"/tmp/cli1", "/tmp/cli2"},
              {SubscribeText(k) : k \in 1 .. MAX_SUBSCRIBERS + 1}
                  \cup {"STATUS"})

\* The datagrams offered when the list holds `subs`.
Offered(subs) ==
    {d \in FullDatagrams :
        d.text \in {SubscribeText(1), SubscribeText(Len(subs) + 1), "STATUS"}}

FullNext == DgramThread(Offered(subscribers))

SpecFull == Init /\ [][FullNext]_vars

Listed(subs, path) == \E i \in 1 .. Len(subs) : subs[i] = path

\* C10: SUBSCRIBE with a new path while the list already holds
\* MAX_SUBSCRIBERS entries leaves the list unchanged and is answered with
\* an error reply rather than a success.
C10_FullListRejected ==
    [][\A d \in FullDatagrams :
          (/\ Len(d.toks) >= 2
           /\ Tok(d.toks, 0) = "SUBSCRIBE"
           /\ Len(subscribers) = MAX_SUBSCRIBERS
           /\ ~Listed(subscribers, Tok(d.toks, 1))
           /\ dgram_iteration(d, NoOutcome))
              => /\ subscribers' = subscribers
                 /\ IsError(response')]_vars

(***************************************************************************)
(* SpecLoad: the command thread's SAMPLE LOAD taken one memory access at   *)
(* a time, interleaved with the render callback's visits to the slot.      *)
(* TRIG is handled between loads.                                          *)
(***************************************************************************)
LoadTexts == {"SAMPLE 1 LOAD /tmp/a.wav"}

LoadDatagrams == Datagrams({"/tmp/cli1"}, LoadTexts)

PlayDatagrams == Datagrams({"/tmp/cli1"}, {"SAMPLE 1 TRIG"})

\* dgram_thread receives a SAMPLE LOAD with a valid slot and path, and
\* process_command enters slot_load_path.
LoadBegin(D, O) ==
    \E d \in D : \E o \in O :
        /\ running = 1
        /\ cmd.pc = "idle"
        /\ SlotCmd(d.toks, "LOAD")
        /\ Len(d.toks) >= 4
        /\ JoinPath(d.toks, 3, "").ok
        /\ n' = Len(d.text)
        /\ client_addr' = d.from
        /\ buf' = d.text
        /\ sent' = <<>>
        /\ cmd' = LoadStart(o)
        /\ UNCHANGED <<proc, G, heap, subscribers, running, gone, busy, response,
                       render, hist>>

\* One step of slot_load_path on the slot named in buf.
LoadStep ==
    /\ cmd.pc \notin {"idle", "done"}
    /\ LET r == slot_load_step(cmd, G.slots[SlotOf(Toks)], heap)
       IN  /\ cmd' = r.c
           /\ G' = [G EXCEPT !.slots[SlotOf(Toks)] = r.s]
           /\ heap' = r.h
    /\ UNCHANGED <<proc, subscribers, running, gone, busy,
                   n, client_addr, buf, response, sent, render, hist>>

\* slot_load_path has returned: the reply is formatted and sent.
LoadEnd ==
    /\ cmd.pc = "done"
    /\ LET r == load_reply([G |-> G, heap |-> heap, sub |-> subscribers,
                            running |-> running, sends |-> <<>>],
                           SlotOf(Toks) + 1, JoinPath(Toks, 3, "").path, cmd.ret)
       IN  /\ response' = r.response
           /\ sent' = <<[to |-> client_addr, msg |-> r.response,
                         res |-> sendto(client_addr)]>>
    /\ cmd' = LoadIdle
    /\ UNCHANGED <<proc, G, heap, subscribers, running, gone, busy,
                   n, client_addr, buf, render, hist>>

\* One step of the render callback at a slot of S.
Render(S) ==
    \E si \in S : \E reuse \in BOOLEAN :
        LET slot == IF render.pc = "idle" THEN si ELSE render.s
            t == data_cb_step(render, slot, G.slots[slot], heap, reuse)
        IN  /\ render' = t.r
            /\ G' = [G EXCEPT !.slots[slot] = t.s]
            /\ UNCHANGED <<proc, heap, subscribers, running, gone, busy,
                           n, client_addr, buf, response, sent, cmd, hist>>

\* The decoder outcomes tried when LOAD is taken step by step: the file
\* decodes to 1 .. MaxFrames frames, or the length query fails.
StepOutcomes ==
    {[fail |-> 0, frames |-> k] : k \in 1 .. MaxFrames}
        \cup {[fail |-> 2, frames |-> 0]}

LoadNext ==
    \/ LoadBegin(LoadDatagrams, StepOutcomes)
    \/ LoadStep
    \/ LoadEnd
    \/ DgramThread(PlayDatagrams)
    \/ Render({0})

SpecLoad == Init /\ [][LoadNext]_vars

\* The slot's data pointer refers to a live, fully written buffer whose
\* size is the slot's length.
ValidBuffer(s) ==
    /\ s.data # NULL
    /\ heap[s.data].st = "live"
    /\ heap[s.data].written
    /\ heap[s.data].size = s.length

\* C1: under any interleaving of SAMPLE LOAD (first load and reload) with
\* render callbacks, whenever a slot's loaded flag reads 1, and when the
\* render thread has read loaded=1 and goes on to read the data pointer,
\* the pointer refers to a live, fully written buffer of the slot's length.
C1_LoadedImpliesValidBuffer ==
    /\ \A si \in 0 .. NUM_SLOTS - 1 :
          G.slots[si].loaded = 1 => ValidBuffer(G.slots[si])
    /\ render.pc = "tick_data" => ValidBuffer(G.slots[render.s])

IsSubscribe(toks) == Len(toks) >= 2 /\ Tok(toks, 0) = "SUBSCRIBE"

\* The socket address a SUBSCRIBE names: its path as sun_path holds it.
Endpoint(toks) == strncpy(Tok(toks, 1), SOCKET_PATH_MAX - 1)

\* C11: the subscriber count is between 0 and MAX_SUBSCRIBERS in every
\* reachable state; SUBSCRIBE of an endpoint that is not in the list, below
\* capacity, appends it at index count and increments count by one, and any
\* other SUBSCRIBE leaves the list as it is.
C11_SubscribeAppends ==
    [][/\ Len(subscribers) \in 0 .. MAX_SUBSCRIBERS
       /\ Len(subscribers') \in 0 .. MAX_SUBSCRIBERS
       /\ \A d \in FullDatagrams :
             (IsSubscribe(d.toks) /\ dgram_iteration(d, NoOutcome))
                 => IF /\ ~Listed(subscribers, Endpoint(d.toks))
                       /\ Len(subscribers) < MAX_SUBSCRIBERS
                    THEN /\ Len(subscribers') = Len(subscribers) + 1
                         /\ subscribers'[Len(subscribers) + 1] = Endpoint(d.toks)
                         /\ SubSeq(subscribers', 1, Len(subscribers)) = subscribers
                    ELSE subscribers' = subscribers]_vars

\* C11's case: the endpoint that filled the list has just been appended.
C11_Witness ==
    /\ Handled
    /\ IsSubscribe(Toks)
    /\ Len(subscribers) = MAX_SUBSCRIBERS
    /\ subscribers[MAX_SUBSCRIBERS] = Endpoint(Toks)
    /\ subscribers[1] = "/tmp/s1"

(***************************************************************************)
(* SpecCast: three clients subscribe, their sockets go away and come back  *)
(* (one may also have a full receive queue), and CH GAIN commands          *)
(* broadcast to whoever is listed.                                         *)
(***************************************************************************)
CastEndpoints == {"/tmp/sub1", "/tmp/sub2", "/tmp/sub3"}

CastTexts ==
    {"SUBSCRIBE /tmp/sub1", "SUBSCRIBE /tmp/sub2", "SUBSCRIBE /tmp/sub3",
     "CH 2 GAIN 0.5", "CH 4 GAIN 50"}

CastDatagrams == Datagrams({"/tmp/cli1"}, CastTexts)

CastNext ==
    \/ DgramThread(CastDatagrams)
    \/ EndpointGone(CastEndpoints)
    \/ EndpointBack(CastEndpoints)
    \/ EndpointBusy({"/tmp/sub2"})

SpecCast == Init /\ [][CastNext]_vars

ChGainCmd(toks) ==
    /\ Len(toks) >= 4
    /\ Tok(toks, 0) = "CH"
    /\ atoi(Tok(toks, 1)) \in 1 .. NUM_CHANNELS
    /\ Tok(toks, 2) = "GAIN"

\* sendto to this endpoint does not fail with ECONNREFUSED, ENOENT or
\* ENOTCONN.
Alive(path) == sendto(path) # "dead"

\* C12: one call of srv_broadcast attempts delivery exactly once to every
\* entry that was in the subscriber list when the call began, in order,
\* also when adjacent entries are dead; afterwards the list is the previous
\* list without the entries whose send failed with ECONNREFUSED, ENOENT or
\* ENOTCONN, the survivors in their previous order.
C12_BroadcastOncePerEntry ==
    [][\A d \in CastDatagrams :
          (ChGainCmd(d.toks) /\ dgram_iteration(d, NoOutcome))
              => /\ Len(Events(sent')) = Len(subscribers)
                 /\ \A i \in 1 .. Len(subscribers) :
                       /\ Events(sent')[i].to = subscribers[i]
                       /\ Events(sent')[i].res = sendto(subscribers[i])
                 /\ subscribers' = SelectSeq(subscribers, Alive)
                 /\ Len(subscribers') = Len(subscribers)
                       - Cardinality({i \in 1 .. Len(subscribers) :
                                         ~Alive(subscribers[i])})]_vars

\* C12's case: a broadcast has found two adjacent dead entries followed by
\* a live one, and only the live one is left.
C12_Witness ==
    /\ Handled
    /\ ChGainCmd(Toks)
    /\ Len(Events(sent)) = 3
    /\ Events(sent)[1].res = "dead"
    /\ Events(sent)[2].res = "dead"
    /\ Events(sent)[3].res = "ok"
    /\ subscribers = <<Events(sent)[3].to>>

\* C13: CH <n> GAIN <g> with n in 1..4 stores clamp(g, 0, 10) as channel
\* n's gain, sends exactly one EVENT CHANNEL n GAIN <stored> to each
\* endpoint subscribed at that moment, and replies OK CH n GAIN <stored>
\* to the issuer whether or not any of those deliveries fail.
C13_ChGainStoredAndAnnounced ==
    [][\A d \in CastDatagrams :
          (ChGainCmd(d.toks) /\ dgram_iteration(d, NoOutcome))
              => LET ch == atoi(Tok(d.toks, 1))
                     stored == clampf(atof(Tok(d.toks, 3)), F(0), F(10))
                 IN  /\ InRange(stored, F(0), F(10))
                     /\ G'.ch[ch - 1].gain = stored
                     /\ Len(Events(sent')) = Len(subscribers)
                     /\ \A i \in 1 .. Len(subscribers) :
                           /\ Events(sent')[i].to = subscribers[i]
                           /\ Events(sent')[i].msg =
                                 Msg("EVENT CHANNEL %d GAIN %.3f", <<ch, stored>>)
                     /\ response' = Msg("OK CH %d GAIN %.3f", <<ch, stored>>)
                     /\ Replies(sent') =
                           <<[to |-> d.from, msg |-> response',
                              res |-> sendto(d.from)]>>]_vars

\* C13's case: CH 4 GAIN 50 has stored 10 and announced it to two
\* subscribers, one of them dead, and the issuer has its OK.
C13_Witness ==
    /\ Handled
    /\ ChGainCmd(Toks)
    /\ G.ch[3].gain = F(10)
    /\ response = Msg("OK CH %d GAIN %.3f", <<4, F(10)>>)
    /\ Len(Events(sent)) = 2
    /\ \E i \in 1 .. 2 : Events(sent)[i].res = "dead"
    /\ \E i \in 1 .. 2 : Events(sent)[i].res = "ok"

(***************************************************************************)
(* The channel strips of data_cb: channel_stereo runs svf_process on each  *)
(* channel's accumulator.  The stereo sums and the output buffer are not   *)
(* engine state.                                                           *)
(***************************************************************************)
\* The quotient of two floats.  Wild and NaN propagate.
FDiv(a, b) ==
    IF Wild \in {a, b} THEN Wild
    ELSE IF NaN \in {a, b} \/ b = 0 THEN NaN
    ELSE (a * 10000) \div b

\* tanf(w) for 0 <= w < pi/2, by its series up to the fifth power.
tanf(w) ==
    LET w2 == FMul(w, w)
        w3 == FMul(w2, w)
        w5 == FMul(w3, w2)
    IN  FAdd(w, FAdd(FDiv(w3, F(3)), FDiv(FScale(w5, 2), F(15))))

\* svf_update_coeffs that writes the clamped Q back to the filter's q.
svf_update_coeffs_store(f) ==
    LET cutoff == f.cutoff
        q == svf_q(f)
    IN  IF cutoff # f.prev_cutoff \/ q # f.prev_q
        THEN [f EXCEPT !.q = q, !.g = F(1), !.k = FDiv(F(1), q),
                       !.prev_cutoff = cutoff, !.prev_q = q]
        ELSE f

\* svf_update_coeffs: g and k are computed again when the cutoff or the
\* clamped Q differs from the one they were computed from.
svf_update_coeffs(f) ==
    LET cutoff == f.cutoff
        q == svf_q(f)
    IN  IF cutoff # f.prev_cutoff \/ q # f.prev_q
        THEN LET half == ENGINE_SR \div 2
                 w == FMul(Frac(31416, 10000),
                           IF cutoff \in {NaN, Wild} THEN cutoff
                           ELSE cutoff \div half)
             IN  [f EXCEPT !.g = tanf(w), !.k = FDiv(F(1), q),
                           !.prev_cutoff = cutoff, !.prev_q = q]
        ELSE f

\* svf_process: an F_OFF filter passes x and touches nothing; any other
\* type refreshes the coefficients and advances both integrators.
svf_process(f, x) ==
    IF f.type = F_OFF THEN [f |-> f, out |-> x]
    ELSE LET neg(a) == IF a \in {NaN, Wild} THEN a ELSE 0 - a
             c == svf_update_coeffs(f)
             v0 == x
             v1 == FDiv(FAdd(c.ic1eq, FMul(c.g, FAdd(v0, neg(c.ic2eq)))),
                        FAdd(F(1), FMul(c.g, FAdd(c.g, c.k))))
             v2 == FAdd(c.ic2eq, FMul(c.g, v1))
         IN  [f |-> [c EXCEPT !.ic1eq = FAdd(FScale(v1, 2), neg(c.ic1eq)),
                              !.ic2eq = FAdd(FScale(v2, 2), neg(c.ic2eq))],
              out |-> IF f.type = F_LP THEN v2
                      ELSE IF f.type = F_HP
                      THEN FAdd(v0, FAdd(neg(FMul(c.k, v1)), neg(v2)))
                      ELSE IF f.type = F_BP THEN v1
                      ELSE v0]

RECURSIVE data_cb_channels(_, _)
data_cb_channels(g, c) ==
    IF c >= NUM_CHANNELS THEN g
    ELSE data_cb_channels(
             IF g.ch[c].filt.type = F_OFF THEN g
             ELSE [g EXCEPT !.ch[c].filt = svf_process(@, g.chMono[c]).f],
             c + 1)

\* One frame of data_cb run by the render thread alone.
data_cb(g, h) ==
    LET m == data_cb_mono(g, h)
    IN  [g |-> data_cb_channels(m.g, 0), took |-> m.took]

(***************************************************************************)
(* SpecTick: whole frames rendered between commands.  Slot 1 is loaded,    *)
(* triggered (by command or by a bridge note), looped and moved to another *)
(* channel.                                                                *)
(***************************************************************************)
\* The frames rendered in a row between two commands.
MaxTicks == 4

\* The render callback renders one frame, uninterrupted.
Frame ==
    /\ render.pc = "idle"
    /\ hist.frames < MaxTicks
    /\ \E f \in {data_cb(G, heap)} :
           /\ G' = f.g
           /\ hist' = [hist EXCEPT
                         !.frames = @ + 1,
                         !.addedA = [v \in 0 .. NUM_VOICES - 1 |-> @[v] + f.took[v]],
                         !.addedB = [v \in 0 .. NUM_VOICES - 1 |-> @[v] + f.took[v]]]
    /\ UNCHANGED <<proc, heap, subscribers, running, gone, busy,
                   n, client_addr, buf, response, sent, cmd, render>>

\* The bridge messages handled between two commands.
MaxNotes == 1

\* The bridge thread handles a raw note message.
OscNote(N) ==
    \E note \in N : \E velocity \in {0, 100} :
        /\ hist.notes < MaxNotes
        /\ G' = osc_handle_raw_note(G, note, velocity)
        /\ hist' = [hist EXCEPT !.notes = @ + 1]
        /\ UNCHANGED <<proc, heap, subscribers, running, gone, busy,
                       n, client_addr, buf, response, sent, cmd, render>>

TickTexts ==
    {"SAMPLE 1 LOAD /tmp/a.wav", "SAMPLE 1 TRIG", "SAMPLE 1 LOOP 1",
     "SAMPLE 1 CHAN 3"}

TickDatagrams == Datagrams({"/tmp/cli1"}, TickTexts)

\* The decoder delivers the whole file, of 0 .. MaxFrames frames.
TickOutcomes(toks) ==
    IF IsLoad(toks) THEN {o \in LoadOutcomes : o.fail = 0} ELSE {NoOutcome}

TickThread ==
    \E d \in TickDatagrams : \E o \in TickOutcomes(d.toks) :
        dgram_iteration(d, o)

TickNext ==
    \/ TickThread
    \/ Frame
    \/ OscNote({36, 40})

SpecTick == Init /\ [][TickNext]_vars

\* The accumulator a slot's or voice's samples are added to.
Acc(x) == clampi(x.assignedCh, 0, NUM_CHANNELS - 1)

\* Slot si is the only source that adds to its accumulator in this frame.
Alone(si) ==
    /\ \A sj \in 0 .. NUM_SLOTS - 1 :
          (sj /= si /\ Acc(G.slots[sj]) = Acc(G.slots[si]))
             => G.slots[sj].playing = 0
    /\ \A vi \in 0 .. NUM_VOICES - 1 :
          Acc(G.voices[vi]) = Acc(G.slots[si]) => G.voices[vi].on = 0

\* C14: for a playing, loaded slot with loop=1 and length >= 1, a tick that
\* finds cursor >= length resets the cursor to 0, outputs buffer[0]*gain
\* and leaves the cursor at 1; no tick of such a slot clears playing.
C14_LoopWraps ==
    [][Frame =>
         \A si \in 0 .. NUM_SLOTS - 1 :
            LET S == G.slots[si]
            IN  (S.playing = 1 /\ S.loaded = 1 /\ S.loop = 1 /\ S.length >= 1)
                   => /\ G'.slots[si].playing = 1
                      /\ S.pos >= S.length
                            => /\ G'.slots[si].pos = 1
                               /\ Alone(si)
                                     => G'.chMono[Acc(S)]
                                            = FMul(Pcm(0), S.gain)]_vars

\* C14's case: a looping slot of two samples has been rendered for three
\* frames, has wrapped, and has just output its first sample again.
C14_Witness ==
    /\ G.slots[0].loop = 1
    /\ G.slots[0].playing = 1
    /\ G.slots[0].length = 2
    /\ G.slots[0].pos = 1
    /\ hist.frames = 3
    /\ hist.notes = 0
    /\ G.chMono[Acc(G.slots[0])] = FMul(Pcm(0), G.slots[0].gain)

TrigStep(si) ==
    \/ \E d \in TickDatagrams :
          /\ SlotCmd(d.toks, "TRIG")
          /\ SlotOf(d.toks) = si
          /\ dgram_iteration(d, NoOutcome)
    \/ OscNote({36, 38})

Silent(S) == S.playing = 0 \/ (S.loop = 0 /\ S.pos >= S.length)

Quiet(c) ==
    /\ \A si \in 0 .. NUM_SLOTS - 1 :
          Acc(G.slots[si]) = c => Silent(G.slots[si])
    /\ \A vi \in 0 .. NUM_VOICES - 1 :
          Acc(G.voices[vi]) = c => G.voices[vi].on = 0

\* C15: for a playing, loaded slot with loop=0, the tick that finds
\* cursor >= length sets playing=0 and cursor=0 and returns 0; a tick of a
\* slot that is not playing returns 0 and changes nothing in the slot, and
\* playing is set again only by a TRIG or a bridge note trigger.
C15_StopsAtEnd ==
    [][/\ Frame =>
            \A si \in 0 .. NUM_SLOTS - 1 :
               LET S == G.slots[si]
               IN  /\ (/\ S.playing = 1 /\ S.loaded = 1 /\ S.loop = 0
                       /\ S.pos >= S.length)
                          => /\ G'.slots[si].playing = 0
                             /\ G'.slots[si].pos = 0
                   /\ S.playing = 0 => G'.slots[si] = S
                   /\ Quiet(Acc(S)) => G'.chMono[Acc(S)] = 0
       /\ \A si \in 0 .. NUM_SLOTS - 1 :
            (G.slots[si].playing = 0 /\ G'.slots[si].playing = 1)
               => TrigStep(si)]_vars

\* C15's case: a triggered slot without loop has played to its end, was
\* stopped by the tick after, and has been ticked again since.
C15_Witness ==
    /\ Handled
    /\ SlotCmd(Toks, "TRIG")
    /\ IsOk(response)
    /\ hist.notes = 0
    /\ G.slots[0].loop = 0
    /\ G.slots[0].length >= 1
    /\ hist.frames >= G.slots[0].length + 2
    /\ G.slots[0].playing = 0
    /\ G.slots[0].pos = 0

\* SAMPLE 1 TRIG was the last command and was accepted; hist.frames frames
\* have been rendered since, with loop=0, on the default channel, and the
\* bridge has not handled a note.
TrigRun ==
    /\ Handled
    /\ buf = "SAMPLE 1 TRIG"
    /\ IsOk(response)
    /\ hist.notes = 0
    /\ G.slots[0].loop = 0
    /\ G.slots[0].assignedCh = 0

Smaller(a, b) == IF a < b THEN a ELSE b

\* C16 as stated: after LOAD, TRIG and N rendered frames with loop=0 the
\* cursor of slot 1 is min(N, L), also for N > L.
C16_CursorIsMin ==
    TrigRun => G.slots[0].pos = Smaller(hist.frames, G.slots[0].length)

\* C16: after a successful SAMPLE 1 LOAD of L frames, SAMPLE 1 TRIG and N
\* rendered frames with loop=0 and no other command, the cursor of slot 1 is
\* N while N <= L and the frame N >= 1 added buffer[N-1]*gain to
\* accumulator 0; the frame L+1 stops the slot and rewinds the cursor to 0,
\* where it stays, and those frames add 0.
C16_CursorAdvancesThenRewinds ==
    TrigRun =>
        LET S == G.slots[0]
            N == hist.frames
        IN  IF N <= S.length
            THEN /\ S.pos = N
                 /\ S.playing = 1
                 /\ N >= 1 => G.chMono[0] = FMul(Pcm(N - 1), S.gain)
            ELSE /\ S.pos = 0
                 /\ S.playing = 0
                 /\ G.chMono[0] = 0

\* C16's case: a buffer of two frames was triggered and three frames were
\* rendered since.
C16_Witness ==
    /\ TrigRun
    /\ G.slots[0].length = 2
    /\ hist.frames = 3
    /\ G.slots[0].playing = 0

(***************************************************************************)
(* SpecVoiceOff: voice 2 is set up, switched on, spiked and rendered,      *)
(* switched off again, and then its parameters and its spike counter are   *)
(* changed while frames are rendered; voice 1 plays a pulse beside it.     *)
(***************************************************************************)
VoiceOffTexts ==
    {"VOICE 2 ON", "VOICE 2 OFF", "VOICE 2 SPIKE", "VOICE 2 WAVE 1",
     "VOICE 2 GAIN 1.5",
     "VOICE 1 FREQ 24000", "VOICE 1 WAVE 1", "VOICE 1 ON"}

VoiceOffDatagrams == Datagrams({"/tmp/cli1"}, VoiceOffTexts)

\* The datagrams offered in engine state g. Voice 1 is made a 24 kHz pulse
\* and switched on first. Voice 2 is switched on only as voice_init left
\* its registers; while on it is only spiked or switched off, and once it
\* has been on and is off again its wave, gain and spike counter change.
VoiceOffOffered(g) ==
    LET v == g.voices[1]
        u == g.voices[0]
    IN  {d \in VoiceOffDatagrams :
            IF u.on = 0
            THEN d.text = (IF u.freq # F(24000) THEN "VOICE 1 FREQ 24000"
                           ELSE IF u.wave # W_PULSE THEN "VOICE 1 WAVE 1"
                           ELSE "VOICE 1 ON")
            ELSE /\ Tok(d.toks, 1) = "2"
                 /\ IF v.on = 1
                    THEN Tok(d.toks, 2) \in {"OFF", "SPIKE"}
                    ELSE IF v.phase = 0
                    THEN d.text = "VOICE 2 ON"
                    ELSE Tok(d.toks, 2) \in {"SPIKE", "WAVE", "GAIN"}}

VoiceOffNext ==
    \/ DgramThread(VoiceOffOffered(G))
    \/ Frame

SpecVoiceOff == Init /\ [][VoiceOffNext]_vars

\* The engine with voice vi as voice_init leaves it: off, nothing pending.
Muted(g, vi) == [g EXCEPT !.voices[vi] = voice_init]

\* C17: a frame rendered while a voice's on flag is 0 leaves the voice's
\* record (phase, A, B, pending spikes, parameters) as it was, and the
\* accumulators are what they would be had the voice just been initialised:
\* the off voice adds exactly 0 whatever its parameters and spikes are.
C17_OffVoiceSilent ==
    [][Frame =>
         \A vi \in 0 .. NUM_VOICES - 1 :
            G.voices[vi].on = 0
               => /\ G'.voices[vi] = G.voices[vi]
                  /\ G'.chMono = data_cb_mono(Muted(G, vi), heap).g.chMono]_vars

\* C17's case: voice 2 was on, was spiked and rendered, is off now with a
\* spike pending, its registers and phase not zero and its gain raised,
\* and a frame was rendered since the last command while voice 1 sounds.
C17_Witness ==
    LET v == G.voices[1]
    IN  /\ v.on = 0
        /\ v.spikes > 0
        /\ v.Astate > 0
        /\ v.phase > 0
        /\ v.gain = Frac(15, 10)
        /\ v.wave = W_PULSE
        /\ hist.frames >= 1
        /\ G.voices[0].on = 1
        /\ G.chMono[0] # 0

(***************************************************************************)
(* SpecSpike: the command thread switches voice 1 on and spikes it while   *)
(* the render thread runs voice_tick on it one statement at a time, so a   *)
(* SPIKE may land between any two statements of a tick.                    *)
(***************************************************************************)
\* The voice ticks a run starts.
MaxVoiceTicks == 3

SpikeDatagrams == Datagrams({"/tmp/cli1"}, {"VOICE 1 ON", "VOICE 1 SPIKE"})

\* VOICE 1 ON is offered while the voice is off, SPIKE at any time.
SpikeOffered(g) ==
    {d \in SpikeDatagrams : d.text = "VOICE 1 ON" => g.voices[0].on = 0}

\* data_cb calls voice_tick for voice vi.
VoiceBegin(vi) ==
    /\ render.pc = "idle"
    /\ hist.ticks < MaxVoiceTicks
    /\ render' = VoiceTickStart(vi)
    /\ hist' = [hist EXCEPT !.ticks = @ + 1]
    /\ UNCHANGED <<proc, G, heap, subscribers, running, gone, busy,
                   n, client_addr, buf, response, sent, cmd>>

\* The spikes a register holds more in w than in v.
Gained(v, w, reg) == (w[reg] - v[reg]) \div F(1)

\* The render thread runs the next statement of voice_tick; hist records
\* what the two additions put into the registers.
VoiceStep ==
    /\ render.pc \notin {"idle"}
    /\ LET vi == render.v
           v == G.voices[vi]
           t == voice_tick_step(render, v)
       IN  /\ render' = t.r
           /\ G' = [G EXCEPT !.voices[vi] = t.v]
           /\ hist' = [hist EXCEPT
                         !.addedA[vi] = @ + (IF render.pc = "voice_addA"
                                             THEN Gained(v, t.v, "Astate")
                                             ELSE 0),
                         !.addedB[vi] = @ + (IF render.pc = "voice_addB"
                                             THEN Gained(v, t.v, "Bstate")
                                             ELSE 0)]
    /\ UNCHANGED <<proc, heap, subscribers, running, gone, busy,
                   n, client_addr, buf, response, sent, cmd>>

SpikeNext ==
    \/ DgramThread(SpikeOffered(G))
    \/ VoiceBegin(0)
    \/ VoiceStep

SpecSpike == Init /\ [][SpikeNext]_vars

\* The spikes a running tick has taken from the counter of voice vi and not
\* yet added to the register: to A before voice_addA, to B before the end
\* of voice_addB.
InHandA(vi) ==
    IF render.pc = "voice_addA" /\ render.v = vi THEN render.s ELSE 0

InHandB(vi) ==
    IF render.pc \in {"voice_addA", "voice_addB"} /\ render.v = vi
    THEN render.s ELSE 0

\* C18: under every interleaving of VOICE <n> SPIKE commands with the
\* statements of voice_tick, the SPIKE commands accepted equal the pending
\* counter plus what ticks added to A plus what the running tick has taken
\* and not yet added, and likewise for B; so between ticks accepted =
\* pending + added to A, and the same total was added to B: no spike is
\* lost and none is counted twice.
C18_SpikesConserved ==
    \A vi \in 0 .. NUM_VOICES - 1 :
        /\ hist.accepted[vi]
              = G.voices[vi].spikes + hist.addedA[vi] + InHandA(vi)
        /\ hist.accepted[vi]
              = G.voices[vi].spikes + hist.addedB[vi] + InHandB(vi)
        /\ render.pc \notin {"voice_addA", "voice_addB"}
              => hist.addedA[vi] = hist.addedB[vi]

\* C18's case: one spike was added to both registers by an earlier tick,
\* and a second SPIKE was accepted while a later tick was past its
\* exchange, so it is pending for the tick after.
C18_Witness ==
    /\ hist.accepted[0] = 2
    /\ hist.addedA[0] = 1
    /\ hist.addedB[0] = 1
    /\ G.voices[0].spikes = 1
    /\ G.voices[0].on = 1
    /\ render.pc = "voice_decay"
    /\ buf = "VOICE 1 SPIKE"

(***************************************************************************)
(* SpecDecay: voice 1 keeps its default time constants or gets the         *)
(* shortest ones, is switched on and spiked, and frames are rendered.      *)
(***************************************************************************)
DecayDatagrams ==
    Datagrams({"/tmp/cli1"},
              {"VOICE 1 TAU 0.0001 0.0002", "VOICE 1 ON", "VOICE 1 SPIKE"})

\* TAU and ON are offered while the voice is off, SPIKE at any time.
DecayOffered(g) ==
    {d \in DecayDatagrams : d.text # "VOICE 1 SPIKE" => g.voices[0].on = 0}

DecayNext ==
    \/ DgramThread(DecayOffered(G))
    \/ Frame

SpecDecay == Init /\ [][DecayNext]_vars

\* The one SPIKE voice 1 has got was the last command, the voice is on with
\* tauA < tauB, and hist.frames frames have been rendered since: the first
\* of them drained the spike into A = B = 0.
SpikeRun ==
    /\ buf = "VOICE 1 SPIKE"
    /\ IsOk(response)
    /\ hist.accepted[0] = 1
    /\ G.voices[0].on = 1
    /\ G.voices[0].tauA < G.voices[0].tauB

\* |A - B|, the duty deviation from dutyBias before the clamp, times 4.
Deviation(v) ==
    IF v.Astate >= v.Bstate THEN v.Astate - v.Bstate ELSE v.Bstate - v.Astate

data_cb_locks_sub == {"sub_lock"}

\* The locks data_cb, slot_tick, voice_tick and channel_stereo acquire:
\* none; they use atomic loads, stores and exchanges only.
data_cb_locks == {}

\* The locks the command thread holds at c.
Held(c) == IF c.pc = "sub_lock" THEN {"sub_lock"} ELSE {}

LockDatagrams == Datagrams({"/tmp/cli1"}, {"SUBSCRIBE /tmp/sub1", "MASTER 0.5"})

\* dgram_thread receives SUBSCRIBE or MASTER; process_command stores the
\* master gain if any, and srv_add_subscriber or srv_broadcast returns from
\* pthread_mutex_lock.
LockBegin(D) ==
    \E d \in D :
        /\ running = 1
        /\ cmd.pc = "idle"
        /\ n' = Len(d.text)
        /\ client_addr' = d.from
        /\ buf' = d.text
        /\ sent' = <<>>
        /\ G' = process_command(
                    [G |-> G, heap |-> heap, sub |-> subscribers,
                     running |-> running, sends |-> <<>>],
                    d.toks, NoOutcome).st.G
        /\ cmd' = At(LoadIdle, "sub_lock")
        /\ UNCHANGED <<proc, heap, subscribers, running, gone, busy, response,
                       render, hist>>

\* The list is updated or the event is sent to every subscriber, sub_lock
\* is released, and the reply is sent.
LockEnd ==
    /\ cmd.pc = "sub_lock"
    /\ LET r == process_command(
                    [G |-> G, heap |-> heap, sub |-> subscribers,
                     running |-> running, sends |-> <<>>],
                    Toks, NoOutcome)
       IN  /\ subscribers' = r.st.sub
           /\ response' = r.response
           /\ hist' = Answered(hist, r.response)
           /\ sent' = Append(r.st.sends,
                             [to |-> client_addr, msg |-> r.response,
                              res |-> sendto(client_addr)])
    /\ cmd' = LoadIdle
    /\ UNCHANGED <<proc, G, heap, running, gone, busy, n, client_addr, buf, render>>

\* One step of slot_load_path by the command thread.
RTLoadStep == Held(cmd) = {} /\ LoadStep

\* One step of the render callback: it waits for the locks it acquires.
RenderStep(S) == data_cb_locks \cap Held(cmd) = {} /\ Render(S)

RTNext ==
    \/ LoadBegin(LoadDatagrams, {[fail |-> 0, frames |-> 1]})
    \/ RTLoadStep
    \/ LoadEnd
    \/ LockBegin(LockDatagrams)
    \/ LockEnd
    \/ DgramThread(PlayDatagrams)
    \/ RenderStep({0})

SpecRT == Init /\ [][RTNext]_vars

\* C20: the render callback acquires no lock and waits for no thread: in
\* every reachable state, with the command thread idle, at any statement
\* of SAMPLE LOAD, or holding sub_lock in srv_add_subscriber or
\* srv_broadcast, the render callback's next step is enabled.
C20_RenderNeverWaits == ENABLED RenderStep({0})

\* C20's case: the command thread holds sub_lock to broadcast to a
\* subscriber while the render callback is in slot_tick about to read a
\* sample of a playing slot.
C20_Witness ==
    /\ cmd.pc = "sub_lock"
    /\ buf = "MASTER 0.5"
    /\ Len(subscribers) = 1
    /\ render.pc = "tick_sample"

(***************************************************************************)
(* main: start-up, the main loop and shutdown.  proc.path is what the      *)
(* socket path names in the file system: nothing ("absent"), a socket      *)
(* nobody listens on ("stale"), another process's listening socket         *)
(* ("live") or this process's bound socket ("ours").                       *)
(***************************************************************************)
proc_start(path) ==
    [pc |-> "engine_init", path |-> path, sock |-> "none", th |-> "none",
     osc |-> 0, audio |-> 0, started |-> {}, exit |-> -1, note |-> NoteIdle]

\* The probe removes the path whatever made the send fail.
is_stale_any(res, errno) == res < 0

\* if (sent < 0 && (errno == ECONNREFUSED || errno == ENOENT))
is_stale(res, errno) == res < 0 /\ errno \in {"ECONNREFUSED", "ENOENT"}

\* What sendto to the existing path may return: errno, or "sent".  ENOENT:
\* the path was removed by its owner after stat saw it.
Probes(path) ==
    IF path = "live" THEN {"sent", "EAGAIN", "EACCES", "ENOENT"}
    ELSE {"ECONNREFUSED", "EACCES", "ENOENT"}

\* What the system calls of dgram_start return.
StartOutcomes(path) ==
    [socket : BOOLEAN, test_sock : BOOLEAN, probe : Probes(path),
     bind : BOOLEAN, create : BOOLEAN]

\* dgram_start on a path in state `path` under the outcomes e: its return
\* value, the path and socket it leaves, whether the thread runs, what
\* unlink removed before the bind, and whether bind was called.
dgram_start(path, e) ==
    LET none == [ret |-> -1, path |-> path, sock |-> "none", th |-> "none",
                 probed |-> FALSE, removed |-> "none", binds |-> FALSE]
        res == IF e.probe = "sent" THEN 7 ELSE -1
        probed == path # "absent" /\ e.test_sock
        \* the path as the probe's sendto found it
        found == IF probed /\ e.probe = "ENOENT" THEN "absent" ELSE path
        stale == probed /\ is_stale(res, e.probe)
        at_bind == IF stale THEN "absent" ELSE found
    IN  IF ~e.socket THEN none
        ELSE IF probed /\ ~stale
        THEN [none EXCEPT !.path = found, !.sock = "closed", !.probed = TRUE]
        ELSE LET r == [none EXCEPT !.probed = probed,
                                   !.removed = IF stale THEN found ELSE "none",
                                   !.binds = TRUE]
             IN  IF at_bind # "absent" \/ ~e.bind
                 THEN [r EXCEPT !.ret = -2, !.path = at_bind, !.sock = "closed"]
                 ELSE IF ~e.create
                 THEN [r EXCEPT !.ret = -3, !.path = "absent", !.sock = "closed"]
                 ELSE [r EXCEPT !.ret = 0, !.path = "ours", !.sock = "bound",
                                !.th = "running"]

\* What main starts first after engine_init: the bridge.
main_next_osc_first(pc) ==
    CASE pc = "engine_init" -> "osc_start"
      [] pc = "osc_start" -> "dgram_start"
      [] pc = "dgram_start" -> "audio_start"
      [] pc = "audio_start" -> "loop"

\* The step main takes after the step at pc has succeeded.
main_next(pc) ==
    CASE pc = "engine_init" -> "dgram_start"
      [] pc = "dgram_start" -> "osc_start"
      [] pc = "osc_start" -> "audio_start"
      [] pc = "audio_start" -> "loop"

\* main returns status `code`, after the clean-up `then` if any.
Leave(p, then, code) ==
    IF then = "exit" THEN [p EXCEPT !.pc = "exited", !.exit = code]
    ELSE [p EXCEPT !.pc = then, !.exit = 0 - code - 1]

\* The status main is going to return when its clean-up is done.
Pending(p) == 0 - p.exit - 1

\* engine_init: ma_device_init succeeds or not.
MainEngineInit ==
    /\ proc.pc = "engine_init"
    /\ \E ok \in BOOLEAN :
          proc' = IF ok THEN At(proc, main_next("engine_init"))
                  ELSE Leave(proc, "exit", 1)
    /\ UNCHANGED <<G, heap, subscribers, running, gone, busy, n, client_addr,
                   buf, response, sent, cmd, render, hist>>

\* dgram_start; on failure engine_uninit and return 2.
MainDgramStart ==
    /\ proc.pc = "dgram_start"
    /\ \E e \in StartOutcomes(proc.path) :
          LET r == dgram_start(proc.path, e)
              p == [proc EXCEPT !.path = r.path, !.sock = r.sock, !.th = r.th,
                                !.started = IF r.th = "running"
                                            THEN @ \cup {"cmd"} ELSE @]
          IN  proc' = IF r.ret = 0 THEN At(p, main_next("dgram_start"))
                      ELSE Leave(p, "exit", 2)
    /\ UNCHANGED <<G, heap, subscribers, running, gone, busy, n, client_addr,
                   buf, response, sent, cmd, render, hist>>

\* osc_start; on failure dgram_stop, engine_uninit and return 3.
MainOscStart ==
    /\ proc.pc = "osc_start"
    /\ \E ok \in BOOLEAN :
          proc' = IF ok
                  THEN [At(proc, main_next("osc_start")) EXCEPT
                           !.osc = 1, !.started = @ \cup {"osc"}]
                  ELSE Leave(proc, "dgram_stop", 3)
    /\ UNCHANGED <<G, heap, subscribers, running, gone, busy, n, client_addr,
                   buf, response, sent, cmd, render, hist>>

\* ma_device_start; on failure osc_stop, dgram_stop, engine_uninit and
\* return 4.
MainAudioStart ==
    /\ proc.pc = "audio_start"
    /\ \E ok \in BOOLEAN :
          proc' = IF ok
                  THEN [At(proc, main_next("audio_start")) EXCEPT
                           !.audio = 1, !.started = @ \cup {"render"}]
                  ELSE [Leave(proc, "dgram_stop", 4) EXCEPT !.osc = 0]
    /\ UNCHANGED <<G, heap, subscribers, running, gone, busy, n, client_addr,
                   buf, response, sent, cmd, render, hist>>

\* while (g_srv.running) sleep(1); then ma_device_stop and osc_stop.
MainLoopEnd ==
    /\ proc.pc = "loop"
    /\ running = 0
    /\ proc' = [Leave(proc, "dgram_stop", 0) EXCEPT !.audio = 0, !.osc = 0]
    /\ UNCHANGED <<G, heap, subscribers, running, gone, busy, n, client_addr,
                   buf, response, sent, cmd, render, hist>>

\* dgram_stop up to pthread_join: it returns at once when running is 0,
\* else clears running and shuts the socket down for reading.
MainDgramStop ==
    /\ proc.pc = "dgram_stop"
    /\ IF running = 0
       THEN /\ proc' = At(proc, "engine_uninit")
            /\ UNCHANGED running
       ELSE /\ proc' = At(proc, "join")
            /\ running' = 0
    /\ UNCHANGED <<G, heap, subscribers, gone, busy, n, client_addr,
                   buf, response, sent, cmd, render, hist>>

\* pthread_join returns once dgram_thread has; then close and unlink.
MainJoin ==
    /\ proc.pc = "join"
    /\ proc.th = "returned"
    /\ proc' = [proc EXCEPT !.pc = "engine_uninit", !.th = "joined",
                            !.sock = "closed", !.path = "absent"]
    /\ UNCHANGED <<G, heap, subscribers, running, gone, busy, n, client_addr,
                   buf, response, sent, cmd, render, hist>>

\* engine_uninit, and main returns: the process is gone with its threads.
MainExit ==
    /\ proc.pc = "engine_uninit"
    /\ proc' = [proc EXCEPT !.pc = "exited", !.exit = Pending(proc)]
    /\ UNCHANGED <<G, heap, subscribers, running, gone, busy, n, client_addr,
                   buf, response, sent, cmd, render, hist>>

\* dgram_thread finds running = 0 and returns.
ThreadReturn ==
    /\ proc.pc # "exited"
    /\ proc.th = "running"
    /\ running = 0
    /\ cmd.pc = "idle"
    /\ proc' = [proc EXCEPT !.th = "returned"]
    /\ UNCHANGED <<G, heap, subscribers, running, gone, busy, n, client_addr,
                   buf, response, sent, cmd, render, hist>>

\* dgram_thread handles a datagram while the process lives.
MainDgram(D) ==
    /\ proc.pc # "exited"
    /\ proc.th = "running"
    /\ DgramThread(D)

\* The audio device calls data_cb while it is started.
MainFrame ==
    /\ proc.pc # "exited"
    /\ proc.audio = 1
    /\ Frame

MainDatagrams == Datagrams({"/tmp/cli1"}, {"QUIT", "STATUS", "MASTER 0.5"})

InitMain ==
    /\ G = engine_init
    /\ heap = heap_init
    /\ subscribers = <<>>
    /\ running = 1
    /\ gone = {}
    /\ busy = {}
    /\ n = -1
    /\ client_addr = ""
    /\ buf = ""
    /\ response = Msg("", <<>>)
    /\ sent = <<>>
    /\ cmd = LoadIdle
    /\ render = RenderIdle
    /\ hist = hist_init
    /\ \E path \in {"absent", "stale", "live"} : proc = proc_start(path)

MainNext ==
    \/ MainEngineInit
    \/ MainDgramStart
    \/ MainOscStart
    \/ MainAudioStart
    \/ MainLoopEnd
    \/ MainDgramStop
    \/ MainJoin
    \/ MainExit
    \/ ThreadReturn
    \/ MainDgram(MainDatagrams)
    \/ MainFrame

SpecMain == InitMain /\ [][MainNext]_vars

\* C21 as stated: once QUIT has been processed and the process has exited,
\* the command thread was joined, the control socket closed and the socket
\* path removed.
C21_QuitStopsServer ==
    (proc.pc = "exited" /\ response.fmt = "OK Shutting down")
        => /\ proc.th = "joined"
           /\ proc.sock = "closed"
           /\ proc.path = "absent"

\* main has returned a failure status and never started a thread or the
\* render callback.
Aborted(p) == p.pc = "exited" /\ p.exit > 0 /\ p.started = {}

\* C22: when engine_init (the audio backend) fails main returns 1, when
\* dgram_start fails (no socket, path in use, bind or thread creation
\* refused) main returns 2, and in both cases no command thread, bridge
\* thread or render callback was started before.
C22_NoThreadBeforeAbort ==
    [][/\ (proc.pc = "engine_init" /\ proc'.pc # main_next("engine_init"))
             => Aborted(proc') /\ proc'.exit = 1
       /\ (proc.pc = "dgram_start" /\ proc'.pc # main_next("dgram_start"))
             => Aborted(proc') /\ proc'.exit = 2]_vars

\* C22's case: the path was free but bind was refused, and main returned 2.
C22_Witness ==
    /\ proc.pc = "exited"
    /\ proc.exit = 2
    /\ proc.path = "absent"
    /\ proc.sock = "closed"
    /\ proc.started = {}

Mapped(variant, name, v) ==
    [path |-> "/midi/mapped/" \o variant \o "/" \o name, type |-> "f",
     arg |-> v, kind |-> "mapped", name |-> name, chan |-> 0, num |-> 0]

RawCc(chan, num, v) ==
    [path |-> "/midi/raw/cc/" \o ToString(chan) \o "/" \o ToString(num),
     type |-> "i", arg |-> v, kind |-> "cc", name |-> "", chan |-> chan,
     num |-> num]

RawNote(chan, num, v) ==
    [path |-> "/midi/raw/note/" \o ToString(chan) \o "/" \o ToString(num),
     type |-> "i", arg |-> v, kind |-> "note", name |-> "", chan |-> chan,
     num |-> num]

BridgeMessages ==
    {Mapped("a", name, Frac(3, 4)) :
        name \in {"VOLUME_1", "VOLUME_4", "PAN_2", "FILTER_CUTOFF",
                  "MASTER_VOLUME", "REVERB", "VOLUME_10"}}
      \cup {RawCc(c[1], c[2], 100) : c \in {<<1, 7>>, <<2, 7>>, <<1, 8>>}}
      \cup {RawNote(1, num, v) : num \in {36, 38, 40}, v \in {0, 100}}

\* The bridge thread handles one message.
OscMessage(M) ==
    /\ \E m \in M : G' = lo_dispatch(G, m)
    /\ UNCHANGED <<proc, heap, subscribers, running, gone, busy,
                   n, client_addr, buf, response, sent, cmd, render, hist>>

BridgeDatagrams ==
    Datagrams({"/tmp/cli1"}, {"SAMPLE 1 LOAD /tmp/a.wav", "SUBSCRIBE /tmp/sub1"})

BridgeNext ==
    \/ \E d \in BridgeDatagrams :
          dgram_iteration(d, [fail |-> 0, frames |-> 1])
    \/ OscMessage(BridgeMessages)

SpecBridge == Init /\ [][BridgeNext]_vars

\* The semantic names osc_handle_mapped has a rule for.
Semantics ==
    {"VOLUME_1", "VOLUME_2", "VOLUME_3", "VOLUME_4", "PAN_1", "PAN_2",
     "FILTER_CUTOFF", "MASTER_VOLUME"}

\* m matches no rule of the bridge in engine state g.
NoRule(g, m) ==
    \/ m.kind = "mapped" /\ m.name \notin Semantics
    \/ m.kind = "cc" /\ ~(m.chan = 1 /\ m.num = 7)
    \/ m.kind = "note" /\ m.arg = 0
    \/ m.kind = "note" /\ m.num \notin {36, 38}
    \/ m.kind = "note" /\ m.num = 36 /\ g.slots[0].loaded = 0
    \/ m.kind = "note" /\ m.num = 38 /\ g.slots[1].loaded = 0

\* The engine state apart from the shared parameters the bridge stores and
\* the playing flags and cursors of the slots.
Apart(g) ==
    [g EXCEPT !.masterGain = 0,
              !.ch = [c \in 0 .. NUM_CHANNELS - 1 |->
                         [@[c] EXCEPT !.gain = 0, !.pan = 0, !.filt.cutoff = 0]],
              !.slots = [s \in 0 .. NUM_SLOTS - 1 |->
                            [@[s] EXCEPT !.playing = 0, !.pos = 0]]]

\* C24: handling a bridge message changes nothing but channel gains and
\* pans, a filter cutoff, the master gain and the playing flag and cursor
\* of a slot; the subscriber list is left alone; and a message that
\* matches no rule (unknown semantic name, raw CC other than 1/7, note
\* with velocity 0, note other than 36 and 38, note 36/38 on a slot that
\* is not loaded) leaves the whole engine state as it was.
C24_BridgeStoresOnly ==
    [][\A m \in BridgeMessages :
          OscMessage({m})
             => /\ subscribers' = subscribers
                /\ heap' = heap
                /\ Apart(G') = Apart(G)
                /\ NoRule(G, m) => G' = G]_vars

\* C24's case: slot 1 is loaded and playing and a subscriber is listed, so
\* note 36 has triggered it, while slot 2 is not loaded and the gain of
\* channel 1 was set by VOLUME_1.
C24_Witness ==
    /\ G.slots[0].loaded = 1
    /\ G.slots[0].playing = 1
    /\ G.slots[1].playing = 0
    /\ Len(subscribers) = 1
    /\ G.ch[0].gain = Frac(3, 4)
    /\ G.ch[1].pan = Frac(1, 2)
    /\ G.masterGain = Frac(100, 127)

(***************************************************************************)
(* SpecSlot: the command thread loads, reloads, triggers, stops, seeks     *)
(* and loops slot 1 while the render thread runs slot_tick on it one       *)
(* memory access at a time.  hist.frames counts the ticks begun since the  *)
(* last command.                                                           *)
(***************************************************************************)
SlotTexts ==
    {"SAMPLE 1 LOAD /tmp/a.wav", "SAMPLE 1 TRIG", "SAMPLE 1 STOP",
     "SAMPLE 1 SEEK 1", "SAMPLE 1 LOOP 1"}

SlotDatagrams == Datagrams({"/tmp/cli1"}, SlotTexts)

SlotThread ==
    \E d \in SlotDatagrams : \E o \in TickOutcomes(d.toks) :
        dgram_iteration(d, o)

\* One step of the render callback at slot si: data_cb's test of playing,
\* then the statements of slot_tick.
TickStep(si) ==
    /\ render.pc = "idle" => hist.frames < MaxTicks
    /\ \E reuse \in BOOLEAN :
          LET slot == IF render.pc = "idle" THEN si ELSE render.s
              t == data_cb_step(render, slot, G.slots[slot], heap, reuse)
          IN  /\ render' = t.r
              /\ G' = [G EXCEPT !.slots[slot] = t.s]
              /\ hist' = IF render.pc = "idle" /\ t.r.pc # "idle"
                         THEN [hist EXCEPT !.frames = @ + 1]
                         ELSE hist
    /\ UNCHANGED <<proc, heap, subscribers, running, gone, busy,
                   n, client_addr, buf, response, sent, cmd>>

SlotNext ==
    \/ SlotThread
    \/ TickStep(0)

SpecSlot == Init /\ [][SlotNext]_vars

\* C25 as stated: whatever slot_tick reads from the sample buffer lies
\* inside a live buffer, below its length.
C25_TickReadsInsideLiveBuffer == render.hit \in {RenderIdle.hit, "ok"}

\* C26 as stated: no step of the command thread assigns the playback cursor
\* of a slot; the cursor moves in steps of the render thread only.
C26_CursorWrittenOnlyByRender ==
    [][SlotThread =>
          \A si \in 0 .. NUM_SLOTS - 1 : G'.slots[si].pos = G.slots[si].pos]_vars

\* The last command was verb on slot 1 and was answered OK, the render
\* thread is between callbacks, and no tick has begun since the command:
\* every tick that was in flight when the command ran has finished.
Settled(verb) ==
    /\ Len(Tokenize(buf)) >= 3
    /\ Tok(Tokenize(buf), 2) = verb
    /\ IsOk(response)
    /\ render.pc = "idle"
    /\ hist.frames = 0

\* C27 as stated: once TRIG (commanded position 0) has completed and the
\* tick in flight has finished, the cursor is 0 or 1.
C27_TrigWriteNotLost ==
    Settled("TRIG") => G.slots[0].pos \in {0, 1}

\* C28 as stated: once STOP has completed and the tick in flight has
\* finished, the slot is not playing and its cursor is 0.
C28_StoppedAtZero ==
    Settled("STOP") => G.slots[0].playing = 0 /\ G.slots[0].pos = 0

(***************************************************************************)
(* SpecSeek: SAMPLE SEEK on slots that are unloaded, empty or loaded with  *)
(* 1 or 6 frames, at rest or playing, with times that are negative, zero,  *)
(* inside the buffer, past its end, and past the range of uint32_t.        *)
(***************************************************************************)
SeekTexts ==
    {"SAMPLE 1 LOAD /tmp/a.wav", "SAMPLE 1 TRIG", "SAMPLE 1 LOOP 1",
     "SAMPLE 1 SEEK", "SAMPLE 2 SEEK 1", "SAMPLE 1 SEEK -1",
     "SAMPLE 1 SEEK 0", "SAMPLE 1 SEEK 0.0001", "SAMPLE 1 SEEK 2",
     "SAMPLE 1 SEEK 89478.5"}

SeekDatagrams == Datagrams({"/tmp/cli1"}, SeekTexts)

IsSeek(toks) == Len(toks) >= 3 /\ Tok(toks, 0) = "SAMPLE" /\ Tok(toks, 2) = "SEEK"

\* The decoder delivers 0, 1 or 6 frames or fails to open the file; an
\* undefined float-to-uint32_t conversion leaves 0, 512 or 2^31 - 1.
SeekOutcomes(toks) ==
    IF IsLoad(toks)
    THEN {[fail |-> f, frames |-> k, conv |-> 0] :
              f \in {0, 1}, k \in {0, 1, 6}}
    ELSE IF IsSeek(toks)
    THEN {[fail |-> 0, frames |-> 0, conv |-> c] : c \in {0, 512, 2147483647}}
    ELSE {NoOutcome}

SeekThread ==
    \E d \in SeekDatagrams : \E o \in SeekOutcomes(d.toks) :
        dgram_iteration(d, o)

SeekNext ==
    \/ SeekThread
    \/ Frame

SpecSeek == Init /\ [][SeekNext]_vars

\* min(floor(max(t, 0) * sampleRate), L - 1) for L >= 1, t in
\* ten-thousandths of a second.
SeekTarget(t, L) ==
    IF t <= 0 THEN 0
    ELSE IF t \div F(1) >= L THEN L - 1
    ELSE LET frames == (t \div F(1)) * ENGINE_SR_DEFAULT
                           + ((t % F(1)) * ENGINE_SR_DEFAULT) \div F(1)
         IN  IF frames < L - 1 THEN frames ELSE L - 1

\* A step of the command thread: Frame counts a callback in hist.frames, a
\* command never does.
ByCommand == hist'.frames <= hist.frames

\* C29 as stated: SEEK on an unloaded slot answers ERROR and leaves the
\* cursor; on a loaded slot of length L >= 1 it sets the cursor to
\* min(floor(max(t, 0) * sampleRate), L - 1), which is below L, and changes
\* neither playing nor loop.
C29_SeekSetsCursor ==
    [][(IsSeek(Tokenize(buf')) /\ Len(Tokenize(buf')) >= 4 /\ ByCommand) =>
          LET toks == Tokenize(buf')
              si == atoi(Tok(toks, 1)) - 1
              S == G.slots[si]
              T == G'.slots[si]
          IN  /\ S.loaded = 0 => ~IsOk(response') /\ T.pos = S.pos
              /\ S.loaded = 1 /\ S.length >= 1 =>
                    /\ T.pos = SeekTarget(atof(Tok(toks, 3)), S.length)
                    /\ T.pos < S.length
                    /\ T.playing = S.playing
                    /\ T.loop = S.loop]_vars

(***************************************************************************)
(* SpecRace: the bridge thread's osc_handle_raw_note taken one memory      *)
(* access at a time (the test of loaded, the store of playing, the store   *)
(* of pos), interleaved with the steps of the command thread's SAMPLE      *)
(* LOAD on the same slot.                                                  *)
(***************************************************************************)
\* One step of osc_handle_raw_note for a note-on of note 36 or 38.
osc_note_step(t, g, note) ==
    CASE t.pc = "idle" ->
            LET slot == IF note = 36 THEN 0 ELSE 1
            IN  IF g.slots[slot].loaded # 0
                THEN [t |-> [pc |-> "store_playing", slot |-> slot], g |-> g]
                ELSE [t |-> NoteIdle, g |-> g]
      [] t.pc = "store_playing" ->
            [t |-> [t EXCEPT !.pc = "store_pos"],
             g |-> [g EXCEPT !.slots[t.slot].playing = 1]]
      [] t.pc = "store_pos" ->
            [t |-> NoteIdle, g |-> [g EXCEPT !.slots[t.slot].pos = 0]]

\* The bridge thread receives a note-on of a note of N and tests loaded.
NoteBegin(N) ==
    \E note \in N :
        /\ proc.note.pc = "idle"
        /\ hist.notes < MaxNotes
        /\ LET r == osc_note_step(proc.note, G, note)
           IN  /\ proc' = [proc EXCEPT !.note = r.t]
               /\ G' = r.g
        /\ hist' = [hist EXCEPT !.notes = @ + 1]
        /\ UNCHANGED <<heap, subscribers, running, gone, busy,
                       n, client_addr, buf, response, sent, cmd, render>>

\* The next store of the handler.
NoteStep ==
    /\ proc.note.pc # "idle"
    /\ LET r == osc_note_step(proc.note, G, 0)
       IN  /\ proc' = [proc EXCEPT !.note = r.t]
           /\ G' = r.g
    /\ UNCHANGED <<heap, subscribers, running, gone, busy,
                   n, client_addr, buf, response, sent, cmd, render, hist>>

RaceNext ==
    \/ LoadBegin(LoadDatagrams, StepOutcomes)
    \/ LoadStep
    \/ LoadEnd
    \/ NoteBegin({36, 38})
    \/ NoteStep

SpecRace == Init /\ [][RaceNext]_vars

\* C30 as stated, at the states where neither thread is inside LOAD or the
\* note handler: a bridge note trigger racing with a LOAD leaves no slot
\* playing that is not loaded.
C30_PlayingImpliesLoaded ==
    (cmd.pc = "idle" /\ proc.note.pc = "idle") =>
        \A si \in 0 .. NUM_SLOTS - 1 :
            G.slots[si].playing = 1 => G.slots[si].loaded = 1

(***************************************************************************)
(* SpecPhase: VOICE FREQ stores frequencies below, at and above the        *)
(* sample rate, and the render callback ticks the voice.  A phase that     *)
(* has left [0,1) is followed up to MaxPhase.                              *)
(***************************************************************************)
MaxPhase == 3

PhaseTexts ==
    {"VOICE 1 ON", "VOICE 1 OFF", "VOICE 1 WAVE 1", "VOICE 1 FREQ 0.5",
     "VOICE 1 FREQ 12000", "VOICE 1 FREQ 36000", "VOICE 1 FREQ 96000"}

PhaseDatagrams == Datagrams({"/tmp/cli1"}, PhaseTexts)

PhaseFrame ==
    /\ \A vi \in 0 .. NUM_VOICES - 1 : G.voices[vi].phase < F(MaxPhase)
    /\ Frame

\* The datagrams offered in engine state g: the client sets a frequency
\* before it switches the voice on.
PhaseOffered(g) ==
    {d \in PhaseDatagrams :
        d.text = "VOICE 1 ON" => g.voices[0].freq # voice_init.freq}

PhaseNext ==
    \/ DgramThread(PhaseOffered(G))
    \/ PhaseFrame

SpecPhase == Init /\ [][PhaseNext]_vars

\* C31 as stated: the oscillator phase of every voice is in [0,1) after
\* every tick, whatever frequency VOICE FREQ has stored.
C31_PhaseInUnitInterval ==
    \A vi \in 0 .. NUM_VOICES - 1 :
        G.voices[vi].phase >= 0 /\ G.voices[vi].phase < F(1)

(***************************************************************************)
(* SpecRange: the bridge thread handles mapped messages with values 0,     *)
(* 1/2 and 1 and raw CC 1/7 messages with values 0, 64 and 127.            *)
(***************************************************************************)
RangeMessages ==
    {Mapped("a", name, F(0)) : name \in Semantics}
      \cup {Mapped("b", name, v) :
               name \in {"VOLUME_1", "PAN_1", "FILTER_CUTOFF", "MASTER_VOLUME"},
               v \in {Frac(1, 2), F(1)}}
      \cup {RawCc(1, 7, v) : v \in {0, 64, 127}}

RangeNext == OscMessage(RangeMessages)

SpecRange == Init /\ [][RangeNext]_vars

\* The channel a VOLUME_k or PAN_k name addresses.
ChannelOf(name) ==
    CASE name \in {"VOLUME_1", "PAN_1"} -> 0
      [] name \in {"VOLUME_2", "PAN_2"} -> 1
      [] name = "VOLUME_3" -> 2
      [] name = "VOLUME_4" -> 3

\* C32: a mapped message with a value v in [0,1] stores v as the gain of
\* channel k for VOLUME_k, 2v-1 in [-1,1] as the pan for PAN_1 and PAN_2,
\* 100+7900v in [100,8000] as the cutoff of channel 1 for FILTER_CUTOFF and
\* v as the master gain for MASTER_VOLUME; a raw CC 1/7 with a value of
\* 0..127 stores value/127 in [0,1] as the master gain.
C32_BridgeStoresInRange ==
    [][\A m \in RangeMessages :
          OscMessage({m}) =>
             /\ m.name \in {"VOLUME_1", "VOLUME_2", "VOLUME_3", "VOLUME_4"} =>
                   /\ G'.ch[ChannelOf(m.name)].gain = m.arg
                   /\ InRange(G'.ch[ChannelOf(m.name)].gain, F(0), F(1))
             /\ m.name \in {"PAN_1", "PAN_2"} =>
                   /\ G'.ch[ChannelOf(m.name)].pan = 2 * m.arg - F(1)
                   /\ InRange(G'.ch[ChannelOf(m.name)].pan, F(-1), F(1))
             /\ m.name = "FILTER_CUTOFF" =>
                   /\ G'.ch[0].filt.cutoff = F(100) + 7900 * m.arg
                   /\ InRange(G'.ch[0].filt.cutoff, F(100), F(8000))
             /\ m.name = "MASTER_VOLUME" =>
                   /\ G'.masterGain = m.arg
                   /\ InRange(G'.masterGain, F(0), F(1))
             /\ m.kind = "cc" =>
                   /\ G'.masterGain = (m.arg * F(1)) \div 127
                   /\ InRange(G'.masterGain, F(0), F(1))]_vars

\* C32's case: the bridge has stored the ends of the ranges and a CC value
\* in between.
C32_Witness ==
    /\ G.ch[0].pan = F(1)
    /\ G.ch[1].pan = F(-1)
    /\ G.ch[0].filt.cutoff = F(8000)
    /\ G.ch[3].gain = F(0)
    /\ G.masterGain = Frac(64, 127)

(***************************************************************************)
(* SpecOwn: a client sends the commands of Script in order, while the      *)
(* bridge handles messages and the render callback renders up to           *)
(* MaxRenders frames in between.                                           *)
(***************************************************************************)
MaxRenders == 2

Script ==
    <<"SAMPLE 1 LOAD /tmp/a.wav", "SAMPLE 1 TRIG", "VOICE 1 FREQ 12000",
      "VOICE 1 SPIKE", "VOICE 1 ON", "CH 1 FILTER 1 1000 100",
      "VOICE 01 SPIKE", "CH 1 FILTER 2 2000 1", "VOICE 1 TAU 0.01 0.02",
      "VOICE 1 WAVE 1", "CH 1 PAN 1", "MASTER 0.5", "SAMPLE 1 SEEK 0",
      "SAMPLE 1 STOP", "VOICE 1 OFF">>

\* How many commands of Script have been handled.
Sent == IF buf = "" THEN 0 ELSE CHOOSE i \in 1 .. Len(Script) : Script[i] = buf

OwnThread ==
    /\ Sent < Len(Script)
    /\ dgram_iteration([from |-> "/tmp/cli1", text |-> Script[Sent + 1],
                        toks |-> Tokenize(Script[Sent + 1])],
                       [fail |-> 0, frames |-> 1, conv |-> 0])

OwnMessages ==
    {Mapped("a", "FILTER_CUTOFF", F(0)), RawCc(1, 7, 127), RawNote(1, 36, 100)}

\* The render callback renders one frame, uninterrupted; hist.ticks counts
\* the frames of the run.
OwnFrame ==
    /\ render.pc = "idle"
    /\ hist.ticks < MaxRenders
    /\ \E f \in {data_cb(G, heap)} :
           /\ G' = f.g
           /\ hist' = [hist EXCEPT
                         !.frames = @ + 1,
                         !.ticks = @ + 1,
                         !.addedA = [v \in 0 .. NUM_VOICES - 1 |-> @[v] + f.took[v]],
                         !.addedB = [v \in 0 .. NUM_VOICES - 1 |-> @[v] + f.took[v]]]
    /\ UNCHANGED <<proc, heap, subscribers, running, gone, busy,
                   n, client_addr, buf, response, sent, cmd, render>>

OwnNext ==
    \/ OwnThread
    \/ OscMessage(OwnMessages)
    \/ OwnFrame

SpecOwn == Init /\ [][OwnNext]_vars

\* The registers of the render thread: A, B and phase of every voice, and
\* the integrators and cached coefficients of every channel's filter.
Registers(g) ==
    [voices |-> [v \in 0 .. NUM_VOICES - 1 |->
                    <<g.voices[v].Astate, g.voices[v].Bstate, g.voices[v].phase>>],
     filt |-> [c \in 0 .. NUM_CHANNELS - 1 |->
                  <<g.ch[c].filt.ic1eq, g.ch[c].filt.ic2eq, g.ch[c].filt.g,
                    g.ch[c].filt.k, g.ch[c].filt.prev_cutoff,
                    g.ch[c].filt.prev_q>>]]

\* C33: a step of the command thread or of the bridge thread leaves A, B
\* and phase of every voice and the integrators and cached coefficients of
\* every filter as they were; they change in frames only.
C33_RegistersRenderOwned ==
    [][(OwnThread \/ OscMessage(OwnMessages)) =>
          Registers(G') = Registers(G)]_vars

\* C33's case: frames have moved the registers of voice 1 and of the
\* filter of channel 1, and CH FILTER has retuned that filter since.
C33_Witness ==
    /\ buf = "CH 1 FILTER 2 2000 1"
    /\ G.voices[0].Astate # 0
    /\ G.voices[0].phase # 0
    /\ G.ch[0].filt.ic1eq # 0
    /\ G.ch[0].filt.prev_cutoff = F(1000)

\* The engine state apart from what the render thread may write: the
\* accumulators, its registers, the playing flag and cursor of a slot and
\* the pending-spike counter of a voice.
Published(g) ==
    [g EXCEPT !.chMono = [c \in 0 .. NUM_CHANNELS - 1 |-> 0],
              !.ch = [c \in 0 .. NUM_CHANNELS - 1 |->
                         [@[c] EXCEPT !.filt.ic1eq = 0, !.filt.ic2eq = 0,
                                      !.filt.g = 0, !.filt.k = 0,
                                      !.filt.prev_cutoff = 0,
                                      !.filt.prev_q = 0]],
              !.voices = [v \in 0 .. NUM_VOICES - 1 |->
                             [@[v] EXCEPT !.Astate = 0, !.Bstate = 0,
                                          !.phase = 0, !.spikes = 0]],
              !.slots = [s \in 0 .. NUM_SLOTS - 1 |->
                            [@[s] EXCEPT !.playing = 0, !.pos = 0]]]

\* C34: a frame of the render callback leaves every published control
\* parameter, the sample buffers and the subscriber list as they were; of
\* the shared values it changes only a slot's playing flag, from 1 to 0,
\* a slot's cursor, and a voice's pending-spike counter, to 0.
C34_FrameKeepsParameters ==
    [][OwnFrame =>
          /\ Published(G') = Published(G)
          /\ subscribers' = subscribers
          /\ heap' = heap
          /\ \A s \in 0 .. NUM_SLOTS - 1 :
                G'.slots[s].playing # G.slots[s].playing =>
                   G.slots[s].playing = 1 /\ G'.slots[s].playing = 0
          /\ \A v \in 0 .. NUM_VOICES - 1 :
                G'.voices[v].spikes # G.voices[v].spikes =>
                   G'.voices[v].spikes = 0]_vars

\* C34's case: two frames have played slot 1 to its end and stopped it,
\* drained the spike of voice 1 and run the filter of channel 1, whose
\* stored Q of 100 is above what the filter uses.
C34_Witness ==
    /\ buf = "CH 1 FILTER 1 1000 100"
    /\ hist.ticks = 2
    /\ G.slots[0].loaded = 1
    /\ G.slots[0].playing = 0
    /\ G.voices[0].spikes = 0
    /\ hist.addedA[0] = 1
    /\ G.ch[0].filt.q = F(100)
    /\ G.ch[0].filt.prev_q = F(20)

(***************************************************************************)
(* SpecEvent: with two subscribers listed, which may go away and come      *)
(* back, a client sends every kind of command, well-formed and not, in     *)
(* the order of EventScript.                                               *)
(***************************************************************************)
EventScript ==
    <<"SUBSCRIBE /tmp/sub1", "SUBSCRIBE /tmp/sub2", "INIT", "STATUS",
      "MASTER", "MASTER 0.5", "CH 1 GAIN", "CH 9 GAIN 1", "CH 1 GAIN 2",
      "CH 1 PAN", "CH 2 PAN -1", "CH 1 FILTER 1", "CH 1 FILTER 1 500 1",
      "VOICE 9 ON", "VOICE 1 ON", "VOICE 1 WAVE 1", "VOICE 1 FREQ 440",
      "VOICE 1 GAIN 1", "VOICE 1 CHAN 2", "VOICE 1 SPIKE",
      "VOICE 1 TAU 0.01 0.02", "VOICE 1 TAU 0.01", "VOICE 1 OFF",
      "SAMPLE 1 TRIG", "SAMPLE 1 LOAD /tmp/a.wav", "SAMPLE 01 TRIG",
      "SAMPLE 1 GAIN 2", "SAMPLE 1 CHAN 1", "SAMPLE 1 LOOP 1",
      "SAMPLE 1 SEEK 0", "SAMPLE 1 SEEK", "SAMPLE 1 STOP", "SAMPLE 1 BOGUS",
      "BOGUS", "QUIT">>

EventSubscribers == {"/tmp/sub1", "/tmp/sub2"}

\* How many commands of EventScript have been handled.
EventsSent ==
    IF buf = "" THEN 0
    ELSE CHOOSE i \in 1 .. Len(EventScript) : EventScript[i] = buf

EventThread ==
    /\ EventsSent < Len(EventScript)
    /\ LET text == EventScript[EventsSent + 1]
       IN  \E o \in Outcomes(Tokenize(text)) :
              dgram_iteration([from |-> "/tmp/cli1", text |-> text,
                               toks |-> Tokenize(text)], o)

EventNext ==
    \/ EventThread
    \/ EndpointGone(EventSubscribers)
    \/ EndpointBack(EventSubscribers)

SpecEvent == Init /\ [][EventNext]_vars

\* The commands that announce what they did.
Announces(toks) ==
    \/ Tok(toks, 0) = "MASTER"
    \/ Len(toks) >= 3 /\ Tok(toks, 0) = "CH" /\ Tok(toks, 2) \in {"GAIN", "PAN"}
    \/ Len(toks) >= 3 /\ Tok(toks, 0) = "VOICE" /\ Tok(toks, 2) \in {"ON", "OFF"}
    \/ Len(toks) >= 3 /\ Tok(toks, 0) = "SAMPLE" /\ Tok(toks, 2) = "TRIG"

\* C35: a MASTER, CH GAIN, CH PAN, VOICE ON, VOICE OFF or SAMPLE TRIG
\* command that is answered OK sends one EVENT to each listed subscriber,
\* in list order; every other command, and every command answered ERROR,
\* sends no EVENT at all.
C35_EventsByCommand ==
    [][EventThread =>
          LET toks == Tokenize(buf')
              evs == Events(sent')
          IN  IF Announces(toks) /\ IsOk(response')
              THEN /\ Len(evs) = Len(subscribers)
                   /\ \A i \in 1 .. Len(evs) : evs[i].to = subscribers[i]
              ELSE evs = <<>>]_vars

\* C35's case: TRIG of the loaded slot 1 has sent its EVENT to both
\* subscribers, one of which was gone.
C35_Witness ==
    /\ buf = "SAMPLE 01 TRIG"
    /\ IsOk(response)
    /\ Len(Events(sent)) = 2
    /\ \E i \in 1 .. 2 : Events(sent)[i].res = "dead"

(***************************************************************************)
(* SpecOrder: one pass of dgram_thread's loop taken in four steps: the     *)
(* datagram is received and process_command stores what the command sets   *)
(* and formats the response; pthread_mutex_lock returns in                 *)
(* srv_add_subscriber or srv_broadcast; the function does its work and     *)
(* returns; the reply is sent.  Two clients send the commands of           *)
(* OrderScript in order, among them a repeated SUBSCRIBE and one more      *)
(* SUBSCRIBE than the list holds, while two subscribers come and go.       *)
(***************************************************************************)
\* The pass with the reply sent before process_command calls
\* srv_add_subscriber or srv_broadcast.
dgram_next_reply_first(pc, locks) ==
    IF pc = "idle" THEN "reply"
    ELSE IF pc = "reply" THEN (IF locks THEN "lock" ELSE "idle")
    ELSE IF pc = "lock" THEN "sub_lock"
    ELSE "idle"

\* Where the command thread goes from pc; `locks` tells whether the
\* command calls srv_add_subscriber or srv_broadcast.
dgram_next(pc, locks) ==
    IF pc = "idle" THEN (IF locks THEN "lock" ELSE "reply")
    ELSE IF pc = "lock" THEN "sub_lock"
    ELSE IF pc = "sub_lock" THEN "reply"
    ELSE "idle"

\* srv_add_subscriber returning from the duplicate check without unlocking.
srv_add_subscriber_return_held(sub, path) ==
    IF Len(sub) >= MAX_SUBSCRIBERS THEN 0
    ELSE IF \E i \in 1 .. Len(sub) : sub[i] = path THEN 1
    ELSE 0

\* sub_lock as srv_add_subscriber leaves it on each of its returns: list
\* full, path already listed, entry added.
srv_add_subscriber_return(sub, path) ==
    IF Len(sub) >= MAX_SUBSCRIBERS THEN 0
    ELSE IF \E i \in 1 .. Len(sub) : sub[i] = path THEN 0
    ELSE 0

\* sub_lock as srv_broadcast leaves it on its one return, after the loop.
srv_broadcast_return(sub) == 0

\* process_command calls srv_add_subscriber or srv_broadcast.
Locks(toks, resp) == IsSubscribe(toks) \/ (Announces(toks) /\ IsOk(resp))

\* dgram_thread's loop written `while (1)`.
dgram_thread_loop_forever(r) == TRUE

\* dgram_thread's loop condition: another datagram is received while the
\* running flag is set.
dgram_thread_loop(r) == r # 0

OrderScript ==
    <<SubscribeText(1), "SUBSCRIBE /tmp/s1 again", SubscribeText(2),
      "MASTER 0.5", "MASTER", "CH 1 GAIN 2", "STATUS", "VOICE 1 ON",
      "VOICE 1 FREQ 440">>
        \o [k \in 1 .. MAX_SUBSCRIBERS - 2 |-> SubscribeText(k + 2)]
        \o <<SubscribeText(MAX_SUBSCRIBERS + 1), "CH 2 PAN -1", "QUIT", "INIT">>

OrderClients == {"/tmp/cli1", "/tmp/cli2"}

OrderSubscribers == {"/tmp/s1", "/tmp/s2"}

\* How many commands of OrderScript have been received.
OrderSent ==
    IF buf = "" THEN 0
    ELSE CHOOSE i \in 1 .. Len(OrderScript) : OrderScript[i] = buf

\* recvfrom returns the next command; process_command stores what it sets
\* and formats the response.
OrderBegin ==
    /\ dgram_thread_loop(running)
    /\ cmd.pc = "idle"
    /\ OrderSent < Len(OrderScript)
    /\ \E from \in OrderClients :
          LET text == OrderScript[OrderSent + 1]
              r == process_command(
                       [G |-> G, heap |-> heap, sub |-> subscribers,
                        running |-> running, sends |-> <<>>],
                       Tokenize(text), NoOutcome)
          IN  /\ n' = Len(text)
              /\ client_addr' = from
              /\ buf' = text
              /\ G' = r.st.G
              /\ running' = r.st.running
              /\ response' = r.response
              /\ sent' = <<>>
              /\ cmd' = At(LoadIdle,
                           dgram_next("idle", Locks(Tokenize(text), r.response)))
    /\ UNCHANGED <<proc, heap, subscribers, gone, busy, render, hist>>

\* pthread_mutex_lock returns once sub_lock is free.
OrderLock ==
    /\ cmd.pc = "lock"
    /\ proc.sub_lock = 0
    /\ proc' = [proc EXCEPT !.sub_lock = 1]
    /\ cmd' = At(cmd, dgram_next("lock", TRUE))
    /\ UNCHANGED <<G, heap, subscribers, running, gone, busy, n, client_addr,
                   buf, response, sent, render, hist>>

\* srv_add_subscriber updates the list, or srv_broadcast sends the event
\* to every subscriber, and returns.
OrderReturn ==
    /\ cmd.pc = "sub_lock"
    /\ LET r == process_command(
                    [G |-> G, heap |-> heap, sub |-> subscribers,
                     running |-> running, sends |-> <<>>],
                    Toks, NoOutcome)
       IN  /\ subscribers' = r.st.sub
           /\ sent' = sent \o r.st.sends
    /\ proc' = [proc EXCEPT !.sub_lock =
                   IF IsSubscribe(Toks)
                   THEN srv_add_subscriber_return(subscribers, Tok(Toks, 1))
                   ELSE srv_broadcast_return(subscribers)]
    /\ cmd' = At(cmd, dgram_next("sub_lock", TRUE))
    /\ UNCHANGED <<G, heap, running, gone, busy, n, client_addr, buf,
                   response, render, hist>>

\* dgram_thread sends the response to the address the datagram came from.
OrderReply ==
    /\ cmd.pc = "reply"
    /\ sent' = Append(sent, [to |-> client_addr, msg |-> response,
                             res |-> sendto(client_addr)])
    /\ hist' = Answered(hist, response)
    /\ cmd' = At(cmd, dgram_next("reply", Locks(Toks, response)))
    /\ UNCHANGED <<proc, G, heap, subscribers, running, gone, busy, n,
                   client_addr, buf, response, render>>

OrderNext ==
    \/ OrderBegin
    \/ OrderLock
    \/ OrderReturn
    \/ OrderReply
    \/ EndpointGone(OrderSubscribers)
    \/ EndpointBack(OrderSubscribers)

SpecOrder == Init /\ [][OrderNext]_vars

\* C36: a command that broadcasts and replies first stores what it sets,
\* then sends the EVENT to every listed subscriber, and only then sends
\* its reply, to the address it came from; nothing is stored once the
\* sending has begun, and the next command is received only after the
\* reply, the last datagram sent for the command, has gone out.
C36_WriteEventReply ==
    [][/\ cmd'.pc \in {"lock", "sub_lock"} => sent' = <<>>
       /\ cmd.pc # "idle" => G' = G
       /\ (cmd.pc = "sub_lock" /\ cmd'.pc = "reply")
             => /\ Replies(sent') = <<>>
                /\ (~IsSubscribe(Toks)) => Len(Events(sent')) = Len(subscribers)
                /\ G = process_command(
                           [G |-> G, heap |-> heap, sub |-> subscribers,
                            running |-> running, sends |-> <<>>],
                           Toks, NoOutcome).st.G
       /\ (buf' # buf /\ buf # "")
             => /\ Len(sent) >= 1
                /\ Len(Replies(sent)) = 1
                /\ sent[Len(sent)].to = client_addr
                /\ sent[Len(sent)].msg = response
                /\ Events(sent) = SubSeq(sent, 1, Len(sent) - 1)]_vars

\* C36's case: CH 1 GAIN 2 from the second client has stored the gain and
\* sent its EVENT to both subscribers; the reply has not been sent yet.
C36_Witness ==
    /\ buf = "CH 1 GAIN 2"
    /\ client_addr = "/tmp/cli2"
    /\ cmd.pc = "reply"
    /\ G.ch[0].gain = F(2)
    /\ Len(Events(sent)) = 2
    /\ Replies(sent) = <<>>

\* C37: sub_lock is locked only while the command thread is inside
\* srv_add_subscriber or srv_broadcast; it is free when the thread is
\* between commands, when it is about to lock it, and after either
\* function has returned on any of its paths.
C37_LockReleased ==
    /\ proc.sub_lock = 1 => (cmd.pc = "sub_lock" /\ Locks(Toks, response))
    /\ cmd.pc \in {"idle", "lock", "reply"} => proc.sub_lock = 0

\* C37's case: srv_add_subscriber has returned from a SUBSCRIBE that found
\* the list full, and the lock is free.
C37_Witness ==
    /\ buf = SubscribeText(MAX_SUBSCRIBERS + 1)
    /\ Len(subscribers) = MAX_SUBSCRIBERS
    /\ cmd.pc = "reply"
    /\ proc.sub_lock = 0

(***************************************************************************)
(* SpecClamp: clients send VOICE CHAN, SAMPLE CHAN and CH FILTER with      *)
(* channel and type arguments below, inside and above the valid range,     *)
(* up to the limits of int, and with text that is no number, while the     *)
(* bridge moves a cutoff.                                                  *)
(***************************************************************************)
ClampArgs == {"-2147483647", "-1", "0", "1", "3", "4", "9", "2147483647", "x"}

ClampTexts ==
    UNION {{"VOICE 1 CHAN " \o a, "VOICE 8 CHAN " \o a,
            "SAMPLE 16 CHAN " \o a,
            "CH 4 FILTER " \o a \o " 1000 1"} : a \in ClampArgs}

ClampDatagrams == Datagrams({"/tmp/cli1"}, ClampTexts)

ClampNext ==
    \/ DgramThread(ClampDatagrams)
    \/ OscMessage({Mapped("a", "FILTER_CUTOFF", Frac(1, 2))})

SpecClamp == Init /\ [][ClampNext]_vars

\* C38: every slot's and every voice's assigned channel is in
\* 0 .. NUM_CHANNELS - 1 and every channel's filter type is one of F_OFF,
\* F_LP, F_HP, F_BP, whatever integer SAMPLE CHAN, VOICE CHAN and
\* CH FILTER were given.
C38_IndicesInRange ==
    /\ \A s \in 0 .. NUM_SLOTS - 1 :
          G.slots[s].assignedCh \in 0 .. NUM_CHANNELS - 1
    /\ \A v \in 0 .. NUM_VOICES - 1 :
          G.voices[v].assignedCh \in 0 .. NUM_CHANNELS - 1
    /\ \A c \in 0 .. NUM_CHANNELS - 1 :
          G.ch[c].filt.type \in {F_OFF, F_LP, F_HP, F_BP}

\* C38's case: CH 4 FILTER 2147483647 has stored F_BP after VOICE 8 CHAN 9
\* stored channel 3 and SAMPLE 16 CHAN 4 stored channel 3.
C38_Witness ==
    /\ buf = "CH 4 FILTER 2147483647 1000 1"
    /\ IsOk(response)
    /\ G.ch[3].filt.type = F_BP
    /\ G.voices[7].assignedCh = NUM_CHANNELS - 1
    /\ G.slots[15].assignedCh = NUM_CHANNELS - 1

\* C39: QUIT is answered 'OK Shutting down' and clears the running flag;
\* from then on the command thread receives no datagram, stores nothing
\* and sends nothing but that reply to the client that sent QUIT.
C39_QuitEndsThread ==
    [][/\ (buf' = "QUIT" /\ buf # "QUIT")
             => running' = 0 /\ response'.fmt = "OK Shutting down"
       /\ running = 0
             => /\ UNCHANGED <<n, buf, client_addr, response, running,
                               G, heap, subscribers>>
                /\ sent' # sent
                      => /\ Len(sent') = 1
                         /\ sent'[1].to = client_addr
                         /\ sent'[1].msg.fmt = "OK Shutting down"]_vars

\* C39's case: QUIT has been answered, the thread is back at its loop
\* condition, and the client's next command, INIT, is waiting.
C39_Witness ==
    /\ buf = "QUIT"
    /\ running = 0
    /\ cmd.pc = "idle"
    /\ Len(sent) = 1
    /\ sent[1].msg.fmt = "OK Shutting down"
    /\ OrderScript[OrderSent + 1] = "INIT"

=============================================================================
